---- MODULE Spec2Model ----
(***************************************************************************)
(* A model of prouter (src/prouter.js): the route tree, the recursive      *)
(* matcher, the lazy-children load paths (preload, Router.#load,           *)
(* Router.render) and the navigation store (source, subscribers,           *)
(* navigate, notify).                                                      *)
(*                                                                         *)
(* Strings are sequences of one-character strings, so that splitting a     *)
(* path or a URL is computed and not assumed.  Route objects are the       *)
(* elements of Nodes; their mutable fields are the variables children and  *)
(* error.  The v0.2.0 module (lazy components, static tree) is modelled    *)
(* next to it, on its own variables.                                       *)
(***************************************************************************)
EXTENDS Integers, Sequences, FiniteSets, TLC

\* ------------------------------------------------------------------ bounds
MaxSegs   == 2    \* longest segment array handed to match
MaxRoutes == 2    \* longest route list handed to match
MaxLoads  == 3    \* loader invocations in one behaviour
MaxNav    == 2    \* navigate calls in one behaviour
MaxNavRender == 1 \* navigate calls in one behaviour of SpecRender
MaxPreloads == 2  \* preload calls in one behaviour of SpecLazy
MaxQuery  == 6    \* characters after the path in a url of SpecQuery

\* ----------------------------------------------------------------- strings
\* JS undefined, where a string is expected (no real character is "undefined")
Undefined == <<"undefined">>

RECURSIVE SplitFrom(_, _, _, _, _)
SplitFrom(s, sep, i, cur, acc) ==
  IF i > Len(s) THEN Append(acc, cur)
  ELSE IF s[i] = sep THEN SplitFrom(s, sep, i + 1, <<>>, Append(acc, cur))
       ELSE SplitFrom(s, sep, i + 1, Append(cur, s[i]), acc)

\* String.prototype.split(sep): "" gives [""], "/a" gives ["", "a"]
Split(s, sep) == SplitFrom(s, sep, 1, <<>>, <<>>)

\* Array.prototype.filter(Boolean) on an array of strings: drops ""
FilterBoolean(arr) == SelectSeq(arr, LAMBDA x : x # <<>>)

\* pathSeg.startsWith(":")
StartsWithColon(seg) == Len(seg) >= 1 /\ seg[1] = ":"

\* --------------------------------------------------------------- the tree
Nodes == 1..10

\* values of a route's children field
Array(items)   == [kind |-> "array",    id |-> 0, items |-> items]
Function(f)    == [kind |-> "function", id |-> f, items |-> <<>>]
PromiseRef(p)  == [kind |-> "promise",  id |-> p, items |-> <<>>]

\* route(path, options, children = []); a call route(options) is written
\* route(Undefined, options, Array(<<>>))
route(path, options, ch) ==
  IF path = Undefined \/ path = <<>>
  THEN [path |-> Undefined, component |-> options.component,
        fallback |-> options.fallback, children |-> Array(<<>>)]
  ELSE [path |-> path, component |-> options.component,
        fallback |-> options.fallback, children |-> ch]

layout(options, ch) ==
  [path |-> Undefined, component |-> options.component,
   fallback |-> options.fallback, children |-> ch]

Opts(c) == [component |-> c, fallback |-> "none"]

\* The application's route tree, as built once at start-up.
\*   1 layout ─┬ 2 index
\*             ├ 3 "s"   (lazy)  ──> 6 index, 7 "a" (lazy) ──> 9 index
\*             ├ 4 ":i"  ── 8 "b" ── 10 ":i"
\*             └ 5 "a/b"
routeTable ==
  [n \in Nodes |->
     CASE n = 1 -> layout(Opts("Shell"), Array(<<2, 3, 4, 5>>))
       [] n = 2 -> route(Undefined, Opts("Home"), Array(<<>>))
       [] n = 3 -> route(<<"s">>, Opts("Settings"), Function(3))
       [] n = 4 -> route(<<":", "i">>, Opts("Post"), Array(<<8>>))
       [] n = 5 -> route(<<"a", "/", "b">>, Opts("AB"), Array(<<>>))
       [] n = 6 -> route(Undefined, Opts("SettingsHome"), Array(<<>>))
       [] n = 7 -> route(<<"a">>, Opts("Account"), Function(7))
       [] n = 8 -> route(<<"b">>, Opts("B"), Array(<<10>>))
       [] n = 9 -> route(Undefined, Opts("AccountHome"), Array(<<>>))
       [] n = 10 -> route(<<":", "i">>, Opts("Comment"), Array(<<>>))]

\* what each loader function's promise resolves to
LoaderResult(f) == IF f = 3 THEN <<6, 7>> ELSE <<9>>

LazyNodes == {n \in Nodes : routeTable[n].children.kind = "function"}

\* -------------------------------------------------------------- components
Routers  == {"r1", "r2"}
NavLinks == {"n1"}
Comps    == Routers \cup NavLinks

U_root == <<"/">>
U_s    == <<"/", "s">>
U_sa   == <<"/", "s", "/", "a">>
Urls   == {U_root, U_s, U_sa}

\* a URL no route matches, and one whose params name i twice
U_aa  == <<"/", "a", "/", "a">>
U_abs == <<"/", "a", "/", "b", "/", "s">>
RenderUrls == Urls \cup {U_aa, U_abs}
PreloadUrls == Urls \cup {U_aa}

\* props of the mounted components: <Router route={root} /> and
\* <Router route={root} url=... />
routeProp(c) == 1

\* options?.replace
ReplaceArgs == {"undefined", "false", "true"}
Truthy(x)   == x = "true"

NoError == "none"

\* what a loader's promise can reject with: an Error, or undefined
\* (Promise.reject()), which is the value of an error field never set
RejectionValues == {"err", NoError}
Rejection(v) == [tag |-> "rejection", value |-> v]
Null    == [tag |-> "null"]

VARIABLES
  children,     \* children[n]: the children field of route n
  error,        \* error[n]: the error field of route n
  promises,     \* promises[p]: the p-th promise returned by a loader
  loaderCalls,  \* loaderCalls[f]: invocations of loader function f
  pending,      \* async calls (preload, #load) suspended at their await
  setStates,    \* setStates[c]: setState calls on router c
  history,      \* the source: history entries, the last one is current
  writeLog,     \* arguments of the last source.write, and the number of writes
  navCount,     \* calls of navigate
  subscribers,  \* the module's subscriber set
  forceUpdates, \* forceUpdates[c]: forceUpdate calls on component c
  observed,     \* observed[c]: source.read() at c's last forceUpdate
  event,        \* what the last step did: operation, result
  urlProps,     \* urlProps[c]: the url prop router c was constructed with
  resolver,     \* resolver[c]: the Resolver mounted under router c, its props
  shown,        \* router.js: shown[c], what router c's last render relied on
  rootCall,     \* the call that built the root node: function and arguments
  component,    \* v0.2.0: component[n], a LazyComponent or the resolved one
  lazyPromise,  \* v0.2.0: lazyPromise[n], the promise field of n's LazyComponent
  lazyLoads,    \* v0.2.0: lazyLoads[n], calls of n's load function
  preloadCalls, \* v0.2.0: the calls of preload, with their Promise.all
  mRoutes, mSegments, mIndex,   \* the arguments of a direct call of match
  mCalled, mResult              \* whether it was made, and what it returned

loadVars  == <<children, error, promises, loaderCalls, pending, setStates>>
navVars   == <<history, writeLog, navCount, subscribers, forceUpdates, observed>>
matchVars == <<mRoutes, mSegments, mIndex, mCalled, mResult>>
propVars  == <<urlProps, resolver, shown, rootCall>>
lazyVars  == <<component, lazyPromise, lazyLoads, preloadCalls>>
vars == <<loadVars, navVars, matchVars, propVars, lazyVars, event>>

\* this.props.url
urlProp(c) == urlProps[c]

\* ---------------------------------------------------------------- matcher
\* r.path?.split("/").filter(Boolean) ?? []
PathSegments(r) ==
  IF routeTable[r].path = Undefined THEN <<>>
  ELSE FilterBoolean(Split(routeTable[r].path, "/"))

\* segments[i] of the JS array (0-based); "" stands for undefined ?? ""
UrlSeg(segments, i) == IF i + 1 <= Len(segments) THEN segments[i + 1] ELSE <<>>
HasSeg(segments, i) == i + 1 <= Len(segments)

\* the literal sub-segments all equal their URL segment
LiteralsMatch(pathSegments, segments, index) ==
  \A i \in 1..Len(pathSegments) :
     StartsWithColon(pathSegments[i])
     \/ (HasSeg(segments, index + i - 1)
         /\ pathSegments[i] = UrlSeg(segments, index + i - 1))

\* params[pathSeg.slice(1)] = urlSeg ?? "", a later marker overwriting
ParamsOf(pathSegments, segments, index) ==
  LET pos == {i \in 1..Len(pathSegments) : StartsWithColon(pathSegments[i])}
      names == {Tail(pathSegments[i]) : i \in pos}
      last(nm) == CHOOSE i \in pos : /\ Tail(pathSegments[i]) = nm
                                     /\ \A j \in pos : Tail(pathSegments[j]) = nm => j <= i
  IN [nm \in names |-> UrlSeg(segments, index + last(nm) - 1)]

\* a plausible slip: only a loader function counts as lazy
IsLazyFunctionOnly(c) == c.kind = "function"

\* typeof r.children === "function" || r.children instanceof Promise
IsLazy(c) == c.kind = "function" \/ c.kind = "promise"

\* a plausible slip: the leaf test accepts unconsumed segments
IsLastLoose(next, segments) == next <= Len(segments)

\* next === segments.length
IsLast(next, segments) == next = Len(segments)

RECURSIVE MatchIn(_, _, _, _)

\* a plausible slip: the last sibling that matches wins
MatchInLastWins(ch, routes, segments, index) ==
  IF routes = <<>> THEN <<>>
  ELSE
    LET r == Head(routes)
        pathSegments == PathSegments(r)
        next == index + Len(pathSegments)
        m == [route |-> r, params |-> ParamsOf(pathSegments, segments, index)]
        child == IF ~IsLazy(ch[r]) /\ Len(ch[r].items) > 0
                 THEN MatchIn(ch, ch[r].items, segments, next) ELSE <<>>
        later == MatchIn(ch, Tail(routes), segments, index)
    IN IF later # <<>> THEN later
       ELSE IF Len(pathSegments) > Len(segments) + index THEN <<>>
       ELSE IF ~LiteralsMatch(pathSegments, segments, index) THEN <<>>
       ELSE IF IsLazy(ch[r]) /\ next <= Len(segments) THEN <<m>>
       ELSE IF child # <<>> THEN <<m>> \o child
       ELSE IF IsLast(next, segments) THEN <<m>>
       ELSE <<>>

\* a plausible slip: the length test is >= instead of >
MatchInOffByOne(ch, routes, segments, index) ==
  IF routes = <<>> THEN <<>>
  ELSE
    LET r == Head(routes)
        pathSegments == PathSegments(r)
        next == index + Len(pathSegments)
        m == [route |-> r, params |-> ParamsOf(pathSegments, segments, index)]
        child == IF ~IsLazy(ch[r]) /\ Len(ch[r].items) > 0
                 THEN MatchIn(ch, ch[r].items, segments, next) ELSE <<>>
    IN IF Len(pathSegments) >= Len(segments) + index THEN <<>>
       ELSE IF ~LiteralsMatch(pathSegments, segments, index)
            THEN MatchIn(ch, Tail(routes), segments, index)
       ELSE IF IsLazy(ch[r]) /\ next <= Len(segments) THEN <<m>>
       ELSE IF child # <<>> THEN <<m>> \o child
       ELSE IF IsLast(next, segments) THEN <<m>>
       ELSE MatchIn(ch, Tail(routes), segments, index)

\* a plausible slip: the child chain is returned without its parent
MatchInDropsParent(ch, routes, segments, index) ==
  IF routes = <<>> THEN <<>>
  ELSE
    LET r == Head(routes)
        pathSegments == PathSegments(r)
        next == index + Len(pathSegments)
        m == [route |-> r, params |-> ParamsOf(pathSegments, segments, index)]
        child == IF ~IsLazy(ch[r]) /\ Len(ch[r].items) > 0
                 THEN MatchIn(ch, ch[r].items, segments, next) ELSE <<>>
    IN IF Len(pathSegments) > Len(segments) + index THEN <<>>
       ELSE IF ~LiteralsMatch(pathSegments, segments, index)
            THEN MatchIn(ch, Tail(routes), segments, index)
       ELSE IF IsLazy(ch[r]) /\ next <= Len(segments) THEN <<m>>
       ELSE IF child # <<>> THEN child
       ELSE IF IsLast(next, segments) THEN <<m>>
       ELSE MatchIn(ch, Tail(routes), segments, index)

\* a plausible slip: every node advances the index by one
MatchInNextByOne(ch, routes, segments, index) ==
  IF routes = <<>> THEN <<>>
  ELSE
    LET r == Head(routes)
        pathSegments == PathSegments(r)
        next == index + 1
        m == [route |-> r, params |-> ParamsOf(pathSegments, segments, index)]
        child == IF ~IsLazy(ch[r]) /\ Len(ch[r].items) > 0
                 THEN MatchIn(ch, ch[r].items, segments, next) ELSE <<>>
    IN IF Len(pathSegments) > Len(segments) + index THEN <<>>
       ELSE IF ~LiteralsMatch(pathSegments, segments, index)
            THEN MatchIn(ch, Tail(routes), segments, index)
       ELSE IF IsLazy(ch[r]) /\ next <= Len(segments) THEN <<m>>
       ELSE IF child # <<>> THEN <<m>> \o child
       ELSE IF IsLast(next, segments) THEN <<m>>
       ELSE MatchIn(ch, Tail(routes), segments, index)

\* a plausible slip: the leaf test is >= instead of ===
MatchInLeafAtLeast(ch, routes, segments, index) ==
  IF routes = <<>> THEN <<>>
  ELSE
    LET r == Head(routes)
        pathSegments == PathSegments(r)
        next == index + Len(pathSegments)
        m == [route |-> r, params |-> ParamsOf(pathSegments, segments, index)]
        child == IF ~IsLazy(ch[r]) /\ Len(ch[r].items) > 0
                 THEN MatchIn(ch, ch[r].items, segments, next) ELSE <<>>
    IN IF Len(pathSegments) > Len(segments) + index THEN <<>>
       ELSE IF ~LiteralsMatch(pathSegments, segments, index)
            THEN MatchIn(ch, Tail(routes), segments, index)
       ELSE IF IsLazy(ch[r]) /\ next <= Len(segments) THEN <<m>>
       ELSE IF child # <<>> THEN <<m>> \o child
       ELSE IF next >= Len(segments) THEN <<m>>
       ELSE MatchIn(ch, Tail(routes), segments, index)

\* a plausible slip: a node whose children fail ends the search
MatchInNoFallThrough(ch, routes, segments, index) ==
  IF routes = <<>> THEN <<>>
  ELSE
    LET r == Head(routes)
        pathSegments == PathSegments(r)
        next == index + Len(pathSegments)
        m == [route |-> r, params |-> ParamsOf(pathSegments, segments, index)]
        child == IF ~IsLazy(ch[r]) /\ Len(ch[r].items) > 0
                 THEN MatchIn(ch, ch[r].items, segments, next) ELSE <<>>
    IN IF Len(pathSegments) > Len(segments) + index THEN <<>>
       ELSE IF ~LiteralsMatch(pathSegments, segments, index)
            THEN MatchIn(ch, Tail(routes), segments, index)
       ELSE IF IsLazy(ch[r]) /\ next <= Len(segments) THEN <<m>>
       ELSE IF child # <<>> THEN <<m>> \o child
       ELSE IF IsLast(next, segments) THEN <<m>>
       ELSE <<>>

\* a plausible slip: the lazy test comes before the comparison of the
\* literals, so that a lazy node stands for any path
MatchInLazyFirst(ch, routes, segments, index) ==
  IF routes = <<>> THEN <<>>
  ELSE
    LET r == Head(routes)
        pathSegments == PathSegments(r)
        next == index + Len(pathSegments)
        m == [route |-> r, params |-> ParamsOf(pathSegments, segments, index)]
        child == IF ~IsLazy(ch[r]) /\ Len(ch[r].items) > 0
                 THEN MatchIn(ch, ch[r].items, segments, next) ELSE <<>>
    IN IF Len(pathSegments) > Len(segments) + index THEN <<>>
       ELSE IF IsLazy(ch[r]) /\ next <= Len(segments) THEN <<m>>
       ELSE IF ~LiteralsMatch(pathSegments, segments, index)
            THEN MatchIn(ch, Tail(routes), segments, index)
       ELSE IF child # <<>> THEN <<m>> \o child
       ELSE IF IsLast(next, segments) THEN <<m>>
       ELSE MatchIn(ch, Tail(routes), segments, index)

\* export function match(routes, segments, index = 0), on the tree whose
\* children fields are ch; the for loop is the recursion on Tail(routes)
MatchIn(ch, routes, segments, index) ==
  IF routes = <<>> THEN <<>>
  ELSE
    LET r == Head(routes)
        pathSegments == PathSegments(r)
        next == index + Len(pathSegments)
        m == [route |-> r, params |-> ParamsOf(pathSegments, segments, index)]
        child == IF ~IsLazy(ch[r]) /\ Len(ch[r].items) > 0
                 THEN MatchIn(ch, ch[r].items, segments, next) ELSE <<>>
    IN IF Len(pathSegments) > Len(segments) + index THEN <<>>
       ELSE IF ~LiteralsMatch(pathSegments, segments, index)
            THEN MatchIn(ch, Tail(routes), segments, index)
       ELSE IF IsLazy(ch[r]) /\ next <= Len(segments) THEN <<m>>
       ELSE IF child # <<>> THEN <<m>> \o child
       ELSE IF IsLast(next, segments) THEN <<m>>
       ELSE MatchIn(ch, Tail(routes), segments, index)

\* match(routes, segments, index = 0) on the current tree
match(routes, segments, index) == MatchIn(children, routes, segments, index)


\* the routes of a chain
RoutesOf(chain) == [i \in 1..Len(chain) |-> chain[i].route]

\* matches.at(-1)?.route, 0 standing for undefined
LastRoute(ms) == IF ms = <<>> THEN 0 ELSE ms[Len(ms)].route
Deepest(ch, root, segments) == LastRoute(MatchIn(ch, <<root>>, segments, 0))

\* (path.split("?")[0] ?? "").split("/").filter(Boolean)
SegmentsOf(url) == FilterBoolean(Split(Split(url, "?")[1], "/"))

\* ----------------------------------------------------------- load engine
Call(kind, comp, root, segments) ==
  [kind |-> kind, comp |-> comp, root |-> root, segments |-> segments]

\* the loop pass, deepest being match([root], segments).at(-1)?.route
\* a plausible slip: the loader is called again while its load is in flight
\* (the test is "children are lazy" instead of "children are a function")
LoopBodyNoMemo(ch, proms, lc, call, deepest) ==
  IF deepest = 0 \/ ch[deepest].kind \notin {"function", "promise"}
  THEN [children |-> ch, promises |-> proms, loaderCalls |-> lc,
        awaiting |-> {}, outcome |-> "fulfilled", invoked |-> 0]
  ELSE [children |-> [ch EXCEPT ![deepest] = PromiseRef(Len(proms) + 1)],
        promises |-> Append(proms,
           [loader |-> IF ch[deepest].kind = "function" THEN ch[deepest].id
                       ELSE proms[ch[deepest].id].loader,
            state |-> "pending"]),
        loaderCalls |-> [lc EXCEPT
           ![IF ch[deepest].kind = "function" THEN ch[deepest].id
             ELSE proms[ch[deepest].id].loader] = @ + 1],
        awaiting |-> {[call |-> call, promise |-> Len(proms) + 1,
                       node |-> deepest,
                       fn |-> IF ch[deepest].kind = "function" THEN ch[deepest].id
                              ELSE proms[ch[deepest].id].loader]},
        outcome |-> "pending",
        invoked |-> IF ch[deepest].kind = "function" THEN ch[deepest].id
                    ELSE proms[ch[deepest].id].loader]

\* a plausible slip: no test of deepest, so that deepest.route throws and
\* the async function rejects
LoopBodyNoNullCheck(ch, proms, lc, call, deepest) ==
  IF deepest = 0
  THEN [children |-> ch, promises |-> proms, loaderCalls |-> lc,
        awaiting |-> {}, outcome |-> "rejected", invoked |-> 0]
  ELSE IF ch[deepest].kind # "function"
  THEN [children |-> ch, promises |-> proms, loaderCalls |-> lc,
        awaiting |-> {}, outcome |-> "fulfilled", invoked |-> 0]
  ELSE [children |-> [ch EXCEPT ![deepest] = PromiseRef(Len(proms) + 1)],
        promises |-> Append(proms, [loader |-> ch[deepest].id,
                                    state |-> "pending"]),
        loaderCalls |-> [lc EXCEPT ![ch[deepest].id] = @ + 1],
        awaiting |-> {[call |-> call, promise |-> Len(proms) + 1,
                       node |-> deepest, fn |-> ch[deepest].id]},
        outcome |-> "pending", invoked |-> ch[deepest].id]

\* One pass of the while (true) loop of Router.#load (preload repeats the
\* same statements), from the deepest match to its return or its await:
\* the result says whether the async function returned ("fulfilled") or is
\* suspended on the promise the loader has just returned.
LoopBody(ch, proms, lc, call, deepest) ==
  IF deepest = 0 \/ ch[deepest].kind # "function"
  THEN [children |-> ch, promises |-> proms, loaderCalls |-> lc,
        awaiting |-> {}, outcome |-> "fulfilled", invoked |-> 0]
  ELSE [children |-> [ch EXCEPT ![deepest] = PromiseRef(Len(proms) + 1)],
        promises |-> Append(proms, [loader |-> ch[deepest].id,
                                    state |-> "pending"]),
        loaderCalls |-> [lc EXCEPT ![ch[deepest].id] = @ + 1],
        awaiting |-> {[call |-> call, promise |-> Len(proms) + 1,
                       node |-> deepest, fn |-> ch[deepest].id]},
        outcome |-> "pending", invoked |-> ch[deepest].id]

\* the while loop's pass on the tree ch
LoopPass(ch, proms, lc, call) ==
  LoopBody(ch, proms, lc, call, Deepest(ch, call.root, call.segments))

\* typeof children === "function", for the deepest match d
IsFunctionAt(ch, d) == d # 0 /\ ch[d].kind = "function"

\* the loop pass would call a loader
Invokes(ch, call) == IsFunctionAt(ch, Deepest(ch, call.root, call.segments))

Event(op, call, outcome, returned, invoked, out) ==
  [op |-> op, call |-> call, outcome |-> outcome, returned |-> returned,
   invoked |-> invoked, out |-> out]

NoCall == Call("none", "none", 0, <<>>)

\* a plausible slip: the context preload returns the promise of #load as
\* it is (no .catch)
ReturnedAsIs(kind, outcome) == outcome

\* what the caller of an async call sees when the function body ends:
\* the context preload swallows the rejection (.catch(() => {}))
Returned(kind, outcome) ==
  IF kind = "ctx" /\ outcome = "rejected" THEN "fulfilled" ELSE outcome

\* a plausible slip: no .catch after the .then, so that a failed load
\* requests no re-render
SetStateOnlyOnSuccess(call, outcome) ==
  IF call.kind = "render" /\ outcome = "fulfilled"
  THEN [setStates EXCEPT ![call.comp] = @ + 1]
  ELSE setStates

\* Router.render's .then(() => this.setState({})).catch(() => this.setState({}))
SetStateAfter(call, outcome) ==
  IF call.kind = "render" /\ outcome \in {"fulfilled", "rejected"}
  THEN [setStates EXCEPT ![call.comp] = @ + 1]
  ELSE setStates

\* the bound on loader invocations
CanStart(call) == Invokes(children, call) => Len(promises) < MaxLoads

\* the state after a loop pass that gave step
Commit(op, call, out, step) ==
  /\ children' = step.children
  /\ promises' = step.promises
  /\ loaderCalls' = step.loaderCalls
  /\ pending' = pending \cup step.awaiting
  /\ setStates' = SetStateAfter(call, step.outcome)
  /\ event' = Event(op, call, step.outcome,
                    Returned(call.kind, step.outcome), step.invoked, out)
  /\ UNCHANGED error

\* the synchronous part of an async call: first pass of the loop
StartCall(op, call, out) ==
  /\ CanStart(call)
  /\ Commit(op, call, out, LoopPass(children, promises, loaderCalls, call))

\* export async function preload(root, path)
Preload(root, path) ==
  /\ StartCall("preload", Call("preload", "none", root, SegmentsOf(path)), Null)
  /\ UNCHANGED <<navVars, matchVars, propVars, lazyVars>>

\* the preload of a Router's context value: this.#load(segments).catch(() => {})
CtxPreload(c, path) ==
  /\ StartCall("ctx", Call("ctx", c, routeProp(c), SegmentsOf(path)), Null)
  /\ UNCHANGED <<navVars, matchVars, propVars, lazyVars>>

\* the awaiting call a resumes after its promise fulfilled: the node gets
\* the resolved array (ch1) and the loop runs its next pass (step)
Resume(a, settled, step) ==
  /\ children' = step.children
  /\ promises' = step.promises
  /\ loaderCalls' = step.loaderCalls
  /\ pending' = (pending \ {a}) \cup step.awaiting
  /\ setStates' = SetStateAfter(a.call, step.outcome)
  /\ event' = Event("settle", a.call, step.outcome,
                    Returned(a.call.kind, step.outcome), step.invoked, Null)
  /\ UNCHANGED error

\* a plausible slip: the catch block does not put the loader back
FailKeepsPromise(a, settled) ==
  /\ \E err \in RejectionValues :
       /\ error' = [error EXCEPT ![a.node] = err]
       /\ event' = Event("settle", a.call, "rejected",
                         Returned(a.call.kind, "rejected"), 0, Rejection(err))
  /\ promises' = settled
  /\ pending' = pending \ {a}
  /\ setStates' = SetStateAfter(a.call, "rejected")
  /\ UNCHANGED <<children, loaderCalls>>

\* a plausible slip: the catch block does not rethrow, so that the loop
\* goes round again and invokes the loader it has just put back; the
\* promise of the new invocation takes the place of the rejected one
FailRetries(a, settled) ==
  /\ \E err \in RejectionValues :
       /\ error' = [error EXCEPT ![a.node] = err]
       /\ event' = Event("settle", a.call, "pending", "pending", a.fn,
                         Rejection(err))
  /\ loaderCalls' = [loaderCalls EXCEPT ![a.fn] =
                       IF @ < MaxLoads THEN @ + 1 ELSE @]
  /\ UNCHANGED <<children, promises, pending, setStates>>

\* the awaiting call a resumes after its promise rejected: the catch block
Fail(a, settled) ==
  /\ children' = [children EXCEPT ![a.node] = Function(a.fn)]
  /\ \E err \in RejectionValues :
       /\ error' = [error EXCEPT ![a.node] = err]
       /\ event' = Event("settle", a.call, "rejected",
                         Returned(a.call.kind, "rejected"), 0, Rejection(err))
  /\ promises' = settled
  /\ pending' = pending \ {a}
  /\ setStates' = SetStateAfter(a.call, "rejected")
  /\ UNCHANGED loaderCalls

\* a plausible slip: the awaited value is not stored on the node
ResolvedNotStored(a) == children

\* a plausible slip: the awaited value is stored on the deepest match of
\* the url the source holds when the promise settles
ResolvedAtCurrentUrl(a) ==
  IF Deepest(children, a.call.root, SegmentsOf(history[Len(history)])) = 0 THEN children
  ELSE [children EXCEPT
          ![Deepest(children, a.call.root, SegmentsOf(history[Len(history)]))] =
             Array(LoaderResult(a.fn))]

\* deepest.route.children = await deepest.route.children
Resolved(a) == [children EXCEPT ![a.node] = Array(LoaderResult(a.fn))]

\* a plausible slip: the continuation runs whether the promise fulfilled
\* or rejected (no try/catch around the await)
SettleWithNoCatch(a, ok, settled) ==
  /\ Invokes(Resolved(a), a.call) => Len(promises) < MaxLoads
  /\ Resume(a, settled, LoopPass(Resolved(a), settled, loaderCalls, a.call))

SettleWith(a, ok, settled) ==
  IF ok
  THEN /\ Invokes(Resolved(a), a.call) => Len(promises) < MaxLoads
       /\ Resume(a, settled, LoopPass(Resolved(a), settled, loaderCalls, a.call))
  ELSE Fail(a, settled)

\* a loader's promise settles; the async function awaiting it resumes,
\* stores the outcome on the node and runs the next pass of its loop
Settle(p, ok) ==
  /\ p \in 1..Len(promises)
  /\ promises[p].state = "pending"
  /\ IF \E a \in pending : a.promise = p
     THEN SettleWith(CHOOSE a \in pending : a.promise = p, ok,
                     [promises EXCEPT ![p].state =
                        IF ok THEN "fulfilled" ELSE "rejected"])
     ELSE /\ promises' = [promises EXCEPT ![p].state =
                            IF ok THEN "fulfilled" ELSE "rejected"]
          /\ event' = Event("settle", NoCall, "none", "none", 0, Null)
          /\ UNCHANGED <<children, error, loaderCalls, pending, setStates>>
  /\ UNCHANGED <<navVars, matchVars, propVars, lazyVars>>

\* ----------------------------------------------------- navigation store
\* source.read() of the pathname source (base = "")
Read(h) == h[Len(h)]

\* source.write(url, replace): history.replaceState or history.pushState
Write(h, url, replace) ==
  IF Truthy(replace) THEN [h EXCEPT ![Len(h)] = url] ELSE Append(h, url)

\* notify(): for (const c of subscribers) c.forceUpdate()
NotifyCounts(fu, subs) ==
  [c \in Comps |-> IF c \in subs THEN fu[c] + 1 ELSE fu[c]]
NotifySeen(obs, subs, h) ==
  [c \in Comps |-> IF c \in subs THEN Read(h) ELSE obs[c]]

\* the arguments of a navigate call, as recorded in event
NavArgs(to, replace) == [tag |-> "args", to |-> to, replace |-> replace]

\* a plausible slip: no notification when the URL does not change
NavigateSkipSame(to, replace) ==
  /\ navCount' = navCount + 1
  /\ history' = Write(history, to, replace)
  /\ writeLog' = [count |-> writeLog.count + 1, url |-> to, replace |-> replace]
  /\ forceUpdates' = IF to = Read(history) THEN forceUpdates
                     ELSE NotifyCounts(forceUpdates, subscribers)
  /\ observed' = NotifySeen(observed, subscribers, history')
  /\ event' = Event("navigate", NoCall, "none", "none", 0, NavArgs(to, replace))
  /\ UNCHANGED <<subscribers, loadVars, matchVars, propVars, lazyVars>>

\* a plausible slip: subscribers are notified before the source is written
NavigateNotifyFirst(to, replace) ==
  /\ navCount' = navCount + 1
  /\ history' = Write(history, to, replace)
  /\ writeLog' = [count |-> writeLog.count + 1, url |-> to, replace |-> replace]
  /\ forceUpdates' = NotifyCounts(forceUpdates, subscribers)
  /\ observed' = NotifySeen(observed, subscribers, history)
  /\ event' = Event("navigate", NoCall, "none", "none", 0, NavArgs(to, replace))
  /\ UNCHANGED <<subscribers, loadVars, matchVars, propVars, lazyVars>>

\* a plausible slip: navigating forgets the failures stored on the nodes
NavigateClearsErrors(to, replace) ==
  /\ navCount' = navCount + 1
  /\ history' = Write(history, to, replace)
  /\ writeLog' = [count |-> writeLog.count + 1, url |-> to, replace |-> replace]
  /\ forceUpdates' = NotifyCounts(forceUpdates, subscribers)
  /\ observed' = NotifySeen(observed, subscribers, history')
  /\ event' = Event("navigate", NoCall, "none", "none", 0, NavArgs(to, replace))
  /\ error' = [n \in Nodes |-> NoError]
  /\ UNCHANGED <<subscribers, children, promises, loaderCalls, pending, setStates,
                 matchVars, propVars, lazyVars>>

\* export function navigate(to, options)
Navigate(to, replace) ==
  /\ navCount' = navCount + 1
  /\ history' = Write(history, to, replace)
  /\ writeLog' = [count |-> writeLog.count + 1, url |-> to, replace |-> replace]
  /\ forceUpdates' = NotifyCounts(forceUpdates, subscribers)
  /\ observed' = NotifySeen(observed, subscribers, history')
  /\ event' = Event("navigate", NoCall, "none", "none", 0, NavArgs(to, replace))
  /\ UNCHANGED <<subscribers, loadVars, matchVars, propVars, lazyVars>>

\* handleClick on a same-origin link (base = ""): navigate(path)
HandleClick(path) == Navigate(path, "undefined")

\* addEventListener("popstate", notify): the browser moved back one entry
PopState ==
  /\ Len(history) > 1
  /\ history' = SubSeq(history, 1, Len(history) - 1)
  /\ forceUpdates' = NotifyCounts(forceUpdates, subscribers)
  /\ observed' = NotifySeen(observed, subscribers, history')
  /\ event' = Event("popstate", NoCall, "none", "none", 0, Null)
  /\ UNCHANGED <<writeLog, navCount, subscribers, loadVars, matchVars, propVars, lazyVars>>

\* whether the component was in the subscriber set when the call was made
Membership(b) == [tag |-> "membership", subscribed |-> b]

\* a plausible slip: mounting a subscribed component takes it out (a toggle)
MountToggles(c) ==
  /\ subscribers' = IF c \in subscribers THEN subscribers \ {c}
                    ELSE IF c \in NavLinks \/ urlProp(c) \in {Undefined, <<>>}
                         THEN subscribers \cup {c} ELSE subscribers
  /\ event' = Event("mount", Call("mount", c, 0, <<>>), "none", "none", 0,
                    Membership(c \in subscribers))
  /\ UNCHANGED <<history, writeLog, navCount, forceUpdates, observed,
                 loadVars, matchVars, propVars, lazyVars>>

\* componentDidMount of Router (if (!this.props.url)) and of NavLink
Mount(c) ==
  /\ subscribers' = IF c \in NavLinks \/ urlProp(c) \in {Undefined, <<>>}
                    THEN subscribers \cup {c} ELSE subscribers
  /\ event' = Event("mount", Call("mount", c, 0, <<>>), "none", "none", 0,
                    Membership(c \in subscribers))
  /\ UNCHANGED <<history, writeLog, navCount, forceUpdates, observed,
                 loadVars, matchVars, propVars, lazyVars>>

\* a plausible slip: componentWillUnmount does not delete the component
UnmountKeeps(c) ==
  /\ subscribers' = subscribers
  /\ event' = Event("unmount", Call("unmount", c, 0, <<>>), "none", "none", 0,
                    Membership(c \in subscribers))
  /\ UNCHANGED <<history, writeLog, navCount, forceUpdates, observed,
                 loadVars, matchVars, propVars, lazyVars>>

\* componentWillUnmount of Router and of NavLink
Unmount(c) ==
  /\ subscribers' = subscribers \ {c}
  /\ event' = Event("unmount", Call("unmount", c, 0, <<>>), "none", "none", 0,
                    Membership(c \in subscribers))
  /\ UNCHANGED <<history, writeLog, navCount, forceUpdates, observed,
                 loadVars, matchVars, propVars, lazyVars>>

\* ------------------------------------------------------------ Router.render
\* Object.assign(params, m.params)
Assign(a, b) ==
  [k \in DOMAIN a \cup DOMAIN b |-> IF k \in DOMAIN b THEN b[k] ELSE a[k]]

RECURSIVE MergeParams(_)

\* a plausible slip: Object.assign(m.params, params) order, the ancestor's
\* value surviving
MergeParamsFirstWins(matches) ==
  IF matches = <<>> THEN <<>>
  ELSE Assign(matches[Len(matches)].params,
              MergeParams(SubSeq(matches, 1, Len(matches) - 1)))

\* const params = {}; for (const m of matches) Object.assign(params, m.params)
MergeParams(matches) ==
  IF matches = <<>> THEN <<>>
  ELSE Assign(MergeParams(SubSeq(matches, 1, Len(matches) - 1)),
              matches[Len(matches)].params)

\* const [pn = "", s] = url.split("?"): pn is the first piece
PathText(url) == Split(url, "?")[1]

\* const [pn = "", s] = url.split("?"): s is the second piece, undefined
\* when the url holds no "?"
QueryText(url) ==
  IF Len(Split(url, "?")) >= 2 THEN Split(url, "?")[2] ELSE Undefined

\* the percent escapes of the urls drawn here: %20 and %26
PercentCodes == {<<"2", "0">>, <<"2", "6">>}
PercentChar(h) == IF h = <<"2", "0">> THEN " " ELSE "&"

\* the decoding URLSearchParams applies to a name or a value: "+" is a
\* space, a percent escape is its character, anything else is itself
RECURSIVE Decode(_)
Decode(s) ==
  IF s = <<>> THEN <<>>
  ELSE IF s[1] = "+" THEN <<" ">> \o Decode(Tail(s))
  ELSE IF s[1] = "%" /\ Len(s) >= 3 /\ <<s[2], s[3]>> \in PercentCodes
       THEN <<PercentChar(<<s[2], s[3]>>)>> \o Decode(SubSeq(s, 4, Len(s)))
       ELSE <<s[1]>> \o Decode(Tail(s))

\* one name=value piece, split at its first "="; no "=" gives the value ""
Entry(piece) ==
  [name  |-> Decode(Split(piece, "=")[1]),
   value |-> Decode(SubSeq(piece, Len(Split(piece, "=")[1]) + 2, Len(piece)))]

\* the application/x-www-form-urlencoded parser: the text is cut at "&",
\* empty pieces are skipped, and the entries keep their order
FormEntries(text) ==
  [i \in 1..Len(FilterBoolean(Split(text, "&"))) |->
     Entry(FilterBoolean(Split(text, "&"))[i])]

\* new URLSearchParams(s): undefined gives no entries; one leading "?" of
\* a string is dropped before it is parsed
URLSearchParams(s) ==
  IF s = Undefined THEN <<>>
  ELSE IF s # <<>> /\ s[1] = "?" THEN FormEntries(Tail(s))
       ELSE FormEntries(s)

\* Object.fromEntries(entries): a later entry overwrites an earlier one
RECURSIVE fromEntries(_)
fromEntries(entries) ==
  IF entries = <<>> THEN <<>>
  ELSE Assign(fromEntries(SubSeq(entries, 1, Len(entries) - 1)),
              [k \in {entries[Len(entries)].name} |-> entries[Len(entries)].value])

\* const query = Object.fromEntries(new URLSearchParams(s))
QueryOf(url) == fromEntries(URLSearchParams(QueryText(url)))

\* let consumedIndex = 0; for (const m of matches) consumedIndex += ...
RECURSIVE ConsumedIndex(_)
ConsumedIndex(matches) ==
  IF matches = <<>> THEN 0
  ELSE ConsumedIndex(SubSeq(matches, 1, Len(matches) - 1))
       + Len(PathSegments(matches[Len(matches)].route))

\* no Resolver is mounted under the router
NoResolver == [mounted |-> FALSE, route |-> 0, segments |-> <<>>, index |-> 0]

\* h(Boundary, {fallback}, h(Resolver, {route: r, segments, index, ...})):
\* the Resolver the tree out mounts, none when the tree has no Boundary
ResolverOf(out, segments) ==
  IF out.tag = "tree" /\ out.boundary
  THEN [mounted |-> TRUE, route |-> out.routes[Len(out.routes)],
        segments |-> segments, index |-> out.index]
  ELSE NoResolver

\* the vnode tree render returns, reduced to what the core decides;
\* loading is computed after this.#load has run its synchronous part
RenderOut(matches, deepest, wasFunction, query) ==
  [tag |-> "tree",
   query |-> [i \in 1..Len(matches) |-> query],
   index |-> ConsumedIndex(matches),
   routes |-> [i \in 1..Len(matches) |-> matches[i].route],
   params |-> MergeParams(matches),
   props |-> [i \in 1..Len(matches) |-> MergeParams(matches)],
   loading |-> wasFunction \/ children[deepest].kind = "promise",
   error |-> IF (wasFunction \/ children[deepest].kind = "promise")
                /\ error[deepest] # NoError
             THEN error[deepest] ELSE NoError,
   boundary |-> (wasFunction \/ children[deepest].kind = "promise")
                /\ error[deepest] = NoError]

\* a plausible slip: no test of deepest, so that deepest.route throws
RenderMatchesNoNullCheck(c, segments, query, matches) ==
  IF matches = <<>>
  THEN /\ event' = Event("render", Call("render", c, routeProp(c), segments),
                         "thrown", "none", 0, [tag |-> "TypeError"])
       /\ UNCHANGED loadVars
  ELSE IF children[LastRoute(matches)].kind = "function"
       THEN StartCall("render", Call("render", c, routeProp(c), segments),
                      RenderOut(matches, LastRoute(matches), TRUE, query))
       ELSE /\ event' = Event("render", Call("render", c, routeProp(c), segments),
                              "none", "none", 0,
                              RenderOut(matches, LastRoute(matches), FALSE, query))
            /\ UNCHANGED loadVars

\* render, from the matches on
RenderMatches(c, segments, query, matches) ==
  IF matches = <<>>
  THEN /\ event' = Event("render", Call("render", c, routeProp(c), segments),
                         "none", "none", 0, Null)
       /\ UNCHANGED loadVars
  ELSE IF children[LastRoute(matches)].kind = "function"
       THEN StartCall("render", Call("render", c, routeProp(c), segments),
                      RenderOut(matches, LastRoute(matches), TRUE, query))
       ELSE /\ event' = Event("render", Call("render", c, routeProp(c), segments),
                              "none", "none", 0,
                              RenderOut(matches, LastRoute(matches), FALSE, query))
            /\ UNCHANGED loadVars

\* const url = this.props.url ?? source.read()
RenderUrl(c) == IF urlProp(c) # Undefined THEN urlProp(c) ELSE Read(history)

RenderSegments(c, segments, query) ==
  RenderMatches(c, segments, query, match(<<routeProp(c)>>, segments, 0))

Render(c) ==
  /\ c \in Routers
  /\ RenderSegments(c, FilterBoolean(Split(PathText(RenderUrl(c)), "/")),
                    QueryOf(RenderUrl(c)))
  /\ resolver' = [resolver EXCEPT ![c] = ResolverOf(event'.out, event'.call.segments)]
  /\ UNCHANGED <<navVars, matchVars, urlProps, shown, rootCall, lazyVars>>

\* a plausible slip: the Resolver calls the loader whenever the children
\* are not an array yet
ResolverRenderNoMemo(c) ==
  /\ resolver[c].mounted
  /\ IF children[resolver[c].route].kind \in {"function", "promise"}
     THEN /\ Len(promises) < MaxLoads
          /\ children' = [children EXCEPT
                ![resolver[c].route] = PromiseRef(Len(promises) + 1)]
          /\ promises' = Append(promises,
                [loader |-> resolver[c].route, state |-> "pending"])
          /\ loaderCalls' = [loaderCalls EXCEPT ![resolver[c].route] = @ + 1]
          /\ event' = Event("resolver",
                            Call("resolver", c, resolver[c].route, resolver[c].segments),
                            "thrown", "none", resolver[c].route, Null)
          /\ UNCHANGED <<error, pending, setStates>>
     ELSE /\ event' = Event("resolver",
                            Call("resolver", c, resolver[c].route, resolver[c].segments),
                            "none", "none", 0,
                            [tag |-> "subtree",
                             routes |-> RoutesOf(match(children[resolver[c].route].items,
                                                       resolver[c].segments,
                                                       resolver[c].index))])
          /\ UNCHANGED loadVars
  /\ UNCHANGED <<navVars, matchVars, propVars, lazyVars>>

\* function Resolver(props), rendered by the host library while it is
\* mounted: a loader function is called and its promise stored and thrown;
\* a promise is thrown; an array is matched from props.index on
ResolverRender(c) ==
  /\ resolver[c].mounted
  /\ IF children[resolver[c].route].kind = "function"
     THEN /\ Len(promises) < MaxLoads
          /\ children' = [children EXCEPT
                ![resolver[c].route] = PromiseRef(Len(promises) + 1)]
          /\ promises' = Append(promises,
                [loader |-> children[resolver[c].route].id, state |-> "pending"])
          /\ loaderCalls' = [loaderCalls EXCEPT
                ![children[resolver[c].route].id] = @ + 1]
          /\ event' = Event("resolver",
                            Call("resolver", c, resolver[c].route, resolver[c].segments),
                            "thrown", "none", children[resolver[c].route].id, Null)
          /\ UNCHANGED <<error, pending, setStates>>
     ELSE IF children[resolver[c].route].kind = "promise"
     THEN /\ event' = Event("resolver",
                            Call("resolver", c, resolver[c].route, resolver[c].segments),
                            "thrown", "none", 0, Null)
          /\ UNCHANGED loadVars
     ELSE /\ event' = Event("resolver",
                            Call("resolver", c, resolver[c].route, resolver[c].segments),
                            "none", "none", 0,
                            [tag |-> "subtree",
                             routes |-> RoutesOf(match(children[resolver[c].route].items,
                                                       resolver[c].segments,
                                                       resolver[c].index))])
          /\ UNCHANGED loadVars
  /\ UNCHANGED <<navVars, matchVars, propVars, lazyVars>>

\* ------------------------------------- v0.2.0: lazy components (part_001)
\* The v0.2.0 module keeps the tree static and makes components lazy:
\* route(path, {component: lazy(load)}, children).  Its tree here has the
\* shape of the tree above with the children of "s" and "a" given
\* statically, and the components of "s" and "a" lazy.
staticChildren ==
  [n \in Nodes |-> IF routeTable[n].children.kind = "function"
                   THEN LoaderResult(n) ELSE routeTable[n].children.items]
LazyComponents == {3, 7}

RECURSIVE MatchV2(_, _, _)
\* export function match(routes, segments, index = 0) of v0.2.0
MatchV2(routes, segments, index) ==
  IF routes = <<>> THEN <<>>
  ELSE
    LET r == Head(routes)
        pathSegments == PathSegments(r)
        next == index + Len(pathSegments)
        m == [route |-> r, params |-> ParamsOf(pathSegments, segments, index)]
        child == IF Len(staticChildren[r]) > 0
                 THEN MatchV2(staticChildren[r], segments, next) ELSE <<>>
    IN IF Len(pathSegments) > Len(segments) + index THEN <<>>
       ELSE IF ~LiteralsMatch(pathSegments, segments, index)
            THEN MatchV2(Tail(routes), segments, index)
       ELSE IF child # <<>> THEN <<m>> \o child
       ELSE IF next = Len(segments) THEN <<m>>
       ELSE MatchV2(Tail(routes), segments, index)

\* match([root], segments).filter(m => LAZY in m.route.component), as a set
LazyOnPath(comp, segments) ==
  {n \in LazyComponents :
     /\ comp[n] = "lazy"
     /\ \E k \in 1..Len(MatchV2(<<1>>, segments, 0)) :
          MatchV2(<<1>>, segments, 0)[k].route = n}

\* the promise field of a LazyComponent: unset, or the promise load()
\* returned, with whether Router.render attached its handlers to it
NoPromise == [state |-> "none", byRender |-> FALSE]

\* a plausible slip: the loads are started one after the other, each
\* awaited before the next (a waterfall)
StartLoadsWaterfall(prom, nodes, byRender) ==
  [n \in LazyComponents |->
     IF n \in nodes /\ prom[n].state = "none"
        /\ \A k \in nodes : prom[k].state = "none" => n <= k
     THEN [state |-> "pending", byRender |-> byRender] ELSE prom[n]]

\* if (!lz.promise) lz.promise = lz.load(), for every lazy component of
\* the chain, in the synchronous part of the call
StartLoads(prom, nodes, byRender) ==
  [n \in LazyComponents |->
     IF n \in nodes /\ prom[n].state = "none"
     THEN [state |-> "pending", byRender |-> byRender] ELSE prom[n]]

CountLoads(loads, prom, started) ==
  [n \in LazyComponents |->
     IF prom[n].state = "none" /\ started[n].state = "pending"
     THEN loads[n] + 1 ELSE loads[n]]

\* Promise.all over the callbacks awaiting the loads of nodes: it rejects as
\* soon as one of them rejects and fulfils when all have fulfilled
PromiseAll(prom, nodes) ==
  IF \E n \in nodes : prom[n].state = "rejected" THEN "rejected"
  ELSE IF \A n \in nodes : prom[n].state = "fulfilled" THEN "fulfilled"
  ELSE "pending"

\* export async function preload(root, path) of v0.2.0
PreloadV2(path) ==
  /\ Len(preloadCalls) < MaxPreloads
  /\ lazyPromise' = StartLoads(lazyPromise,
                               LazyOnPath(component, SegmentsOf(path)), FALSE)
  /\ lazyLoads' = CountLoads(lazyLoads, lazyPromise, lazyPromise')
  /\ preloadCalls' = Append(preloadCalls,
        [joined |-> LazyOnPath(component, SegmentsOf(path)),
         state |-> PromiseAll(lazyPromise', LazyOnPath(component, SegmentsOf(path)))])
  /\ event' = Event("preloadV2", Call("preloadV2", "none", 1, SegmentsOf(path)),
                    "none", "none", 0, Null)
  /\ UNCHANGED <<component, loadVars, navVars, matchVars, propVars>>

\* Router.render of v0.2.0, for <Router route={root} url={path} />:
\* "kick off all lazy component loads in parallel"
RenderV2(path) ==
  /\ lazyPromise' = StartLoads(lazyPromise,
                               LazyOnPath(component, SegmentsOf(path)), TRUE)
  /\ lazyLoads' = CountLoads(lazyLoads, lazyPromise, lazyPromise')
  /\ event' = Event("renderV2", Call("renderV2", "r1", 1, SegmentsOf(path)),
                    "none", "none", 0, Null)
  /\ UNCHANGED <<component, preloadCalls, loadVars, navVars, matchVars, propVars>>

\* the promise returned by n's load settles; its reactions run: the
\* component is stored (render's then, preload's callbacks), render's
\* finally calls setState, and every Promise.all that holds a callback on
\* the promise is updated
SettleV2(n, ok) ==
  /\ lazyPromise[n].state = "pending"
  /\ lazyPromise' = [lazyPromise EXCEPT
                       ![n].state = IF ok THEN "fulfilled" ELSE "rejected"]
  /\ component' = [component EXCEPT ![n] = IF ok THEN "resolved" ELSE @]
  /\ setStates' = IF lazyPromise[n].byRender
                  THEN [setStates EXCEPT !["r1"] = @ + 1] ELSE setStates
  /\ preloadCalls' =
       [i \in 1..Len(preloadCalls) |->
          IF preloadCalls[i].state = "pending"
          THEN [preloadCalls[i] EXCEPT
                  !.state = PromiseAll(lazyPromise', preloadCalls[i].joined)]
          ELSE preloadCalls[i]]
  /\ event' = Event("settleV2", NoCall, IF ok THEN "fulfilled" ELSE "rejected",
                    "none", 0, Null)
  /\ UNCHANGED <<lazyLoads, children, error, promises, loaderCalls, pending,
                 navVars, matchVars, propVars>>

NextLazy ==
  \/ \E path \in Urls : PreloadV2(path)
  \/ \E path \in Urls : RenderV2(path)
  \/ \E n \in LazyComponents, ok \in BOOLEAN : SettleV2(n, ok)

\* ------------------------------------------------------- the whole program
\* the props the two routers are constructed with, r2 with the url u
PropsWith(u) == [c \in Routers |-> IF c = "r2" THEN u ELSE Undefined]

\* the call of layout or route that builds the root node
RootCall(fn, path, ch) == [fn |-> fn, path |-> path, children |-> ch]

\* the root of routeTable is built by layout(options, children)
LayoutCall == RootCall("layout", Undefined, routeTable[1].children)

\* router.js: a router that has not rendered yet
NotShown == [seen |-> -1, promise |-> 0]

\* the state once the tree is built and the routers are constructed with
\* the url props up
Constructed(up) ==
  /\ urlProps = up
  /\ resolver = [c \in Routers |-> NoResolver]
  /\ shown = [c \in Routers |-> NotShown]
  /\ rootCall = LayoutCall
  /\ component = [n \in Nodes |-> IF n \in LazyComponents THEN "lazy" ELSE "plain"]
  /\ lazyPromise = [n \in LazyComponents |-> NoPromise]
  /\ lazyLoads = [n \in LazyComponents |-> 0]
  /\ preloadCalls = <<>>
  /\ children = [n \in Nodes |-> routeTable[n].children]
  /\ error = [n \in Nodes |-> NoError]
  /\ promises = <<>>
  /\ loaderCalls = [f \in LazyNodes |-> 0]
  /\ pending = {}
  /\ setStates = [c \in Routers |-> 0]
  /\ history = <<U_root>>
  /\ writeLog = [count |-> 0, url |-> Undefined, replace |-> "undefined"]
  /\ navCount = 0
  /\ subscribers = {}
  /\ forceUpdates = [c \in Comps |-> 0]
  /\ observed = [c \in Comps |-> Undefined]
  /\ event = Event("init", NoCall, "none", "none", 0, Null)
  /\ mRoutes = <<>>
  /\ mSegments = <<>>
  /\ mIndex = 0
  /\ mCalled = FALSE
  /\ mResult = <<>>

Init == Constructed(PropsWith(U_sa))

\* the loading engine, driven by renders and preloads
Next ==
  \/ \E path \in PreloadUrls : Preload(1, path)
  \/ \E c \in Routers : ResolverRender(c)
  \/ \E c \in Routers, path \in Urls : CtxPreload(c, path)
  \/ \E c \in Routers : Render(c)
  \/ \E p \in 1..MaxLoads, ok \in BOOLEAN : Settle(p, ok)

Spec == Init /\ [][Next]_vars

\* the same with the scheduling the loads rely on: every loader's promise
\* settles, and with it the continuation awaiting it runs; the host
\* library renders a mounted Resolver
SpecLive ==
  /\ Init /\ [][Next]_vars
  /\ \A p \in 1..MaxLoads : WF_vars(\E ok \in BOOLEAN : Settle(p, ok))
  /\ \A c \in Routers : WF_vars(ResolverRender(c))

\* the v0.2.0 module: preloads, renders and loads of lazy components
SpecLazy == Init /\ [][NextLazy]_vars

\* the navigation store alone
NextNav ==
  \/ \E to \in Urls, replace \in ReplaceArgs :
        navCount < MaxNav /\ Navigate(to, replace)
  \/ PopState
  \/ \E c \in Comps : Mount(c)
  \/ \E c \in Comps : Unmount(c)

SpecNav == Init /\ [][NextNav]_vars

\* routers mounted and rendered while the user navigates and the
\* loads their renders start settle; r2 is constructed with a url prop,
\* "/s/a" or ""
InitRender == \E u \in {U_sa, <<>>} : Constructed(PropsWith(u))

NextRender ==
  \/ \E path \in RenderUrls : navCount < MaxNavRender /\ HandleClick(path)
  \/ \E c \in Routers : Mount(c)
  \/ \E c \in Routers : Render(c)
  \/ \E p \in 1..MaxLoads, ok \in BOOLEAN : Settle(p, ok)

SpecRender == InitRender /\ [][NextRender]_vars

\* routers rendered with a url that carries a query string: r2 is
\* constructed with a url prop drawn from QueryUrls, r1 reads the source
QueryPaths    == {U_root, U_sa}
QueryAlphabet == {"?", "a", "=", "&"}
QuerySuffixes == UNION {[1..k -> QueryAlphabet] : k \in 0..MaxQuery}
U_spec == <<"/", "?", "a", "=", "1", "&", "b", "=",
            "h", "i", "%", "2", "0", "y", "o", "u">>
U_test == <<"/", "?", "h", "i", "%", "2", "0", "y", "o", "u", "=",
            "f", "o", "o", "%", "2", "6", "b", "a", "r">>
QueryUrls ==
  {p \o q : p \in QueryPaths, q \in QuerySuffixes} \cup {U_spec, U_test}

InitQuery == \E u \in QueryUrls : Constructed(PropsWith(u))

NextQuery == \E c \in Routers : Render(c)

SpecQuery == InitQuery /\ [][NextQuery]_vars

\* routers that both read the source, rendered while the user navigates
\* and the loads their renders start settle
InitStale == Constructed([c \in Routers |-> Undefined])

NextStale ==
  \/ \E path \in Urls : navCount < MaxNav /\ HandleClick(path)
  \/ \E c \in Routers : Render(c)
  \/ \E p \in 1..MaxLoads, ok \in BOOLEAN : Settle(p, ok)

SpecStale == InitStale /\ [][NextStale]_vars

\* ------------------------------------------------- match, called directly
SegAlphabet == {<<"a">>, <<"b">>, <<"s">>}
SeqsUpTo(S, n) == UNION {[1..k -> S] : k \in 0..n}
SegArrays  == SeqsUpTo(SegAlphabet, MaxSegs)
RouteLists == SeqsUpTo(Nodes, MaxRoutes)

\* load states of the tree along preload(root, "/s") and preload(root, "/s/a")
\* with loaders that succeed: nothing loaded; 3 in flight; 3 resolved;
\* 3 resolved and 7 in flight; both resolved
PreloadCall(path) == Call("preload", "none", 1, SegmentsOf(path))
TreeState(k) ==
  LET base == [n \in Nodes |-> routeTable[n].children]
      done3 == [base EXCEPT ![3] = Array(LoaderResult(3))]
      P(f, st) == [loader |-> f, state |-> st]
      W(p, n) == {[call |-> PreloadCall(U_sa), promise |-> p, node |-> n, fn |-> n]}
  IN CASE k = 0 -> [children |-> base, promises |-> <<>>, pending |-> {}]
       [] k = 1 -> [children |-> [base EXCEPT ![3] = PromiseRef(1)],
                    promises |-> <<P(3, "pending")>>, pending |-> W(1, 3)]
       [] k = 2 -> [children |-> done3,
                    promises |-> <<P(3, "fulfilled")>>, pending |-> {}]
       [] k = 3 -> [children |-> [done3 EXCEPT ![7] = PromiseRef(2)],
                    promises |-> <<P(3, "fulfilled"), P(7, "pending")>>,
                    pending |-> W(2, 7)]
       [] k = 4 -> [children |-> [done3 EXCEPT ![7] = Array(LoaderResult(7))],
                    promises |-> <<P(3, "fulfilled"), P(7, "fulfilled")>>,
                    pending |-> {}]

InitMatch ==
  /\ \E k \in 0..4 :
       /\ children = TreeState(k).children
       /\ promises = TreeState(k).promises
       /\ pending = TreeState(k).pending
       /\ loaderCalls = [f \in LazyNodes |->
            Cardinality({p \in 1..Len(TreeState(k).promises) :
                           TreeState(k).promises[p].loader = f})]
       /\ event = Event(IF k = 0 THEN "init" ELSE "settle", NoCall,
                        "none", "none", 0, Null)
  /\ urlProps = PropsWith(U_sa)
  /\ resolver = [c \in Routers |-> NoResolver]
  /\ shown = [c \in Routers |-> NotShown]
  /\ rootCall = LayoutCall
  /\ component = [n \in Nodes |-> IF n \in LazyComponents THEN "lazy" ELSE "plain"]
  /\ lazyPromise = [n \in LazyComponents |-> NoPromise]
  /\ lazyLoads = [n \in LazyComponents |-> 0]
  /\ preloadCalls = <<>>
  /\ error = [n \in Nodes |-> NoError]
  /\ setStates = [c \in Routers |-> 0]
  /\ history = <<U_root>>
  /\ writeLog = [count |-> 0, url |-> Undefined, replace |-> "undefined"]
  /\ navCount = 0
  /\ subscribers = {}
  /\ forceUpdates = [c \in Comps |-> 0]
  /\ observed = [c \in Comps |-> Undefined]
  /\ mRoutes \in RouteLists
  /\ mSegments \in SegArrays
  /\ mIndex \in 0..MaxSegs
  /\ mCalled = FALSE
  /\ mResult = <<>>

\* match(mRoutes, mSegments, mIndex)
CallMatch ==
  /\ ~mCalled
  /\ mCalled' = TRUE
  /\ mResult' = match(mRoutes, mSegments, mIndex)
  /\ event' = Event("match", NoCall, "none", "none", 0, Null)
  /\ UNCHANGED <<mRoutes, mSegments, mIndex, loadVars, navVars, propVars, lazyVars>>

NextMatch == CallMatch

SpecMatch == InitMatch /\ [][NextMatch]_vars

\* ----------------------------------------- a root built by route(...)
\* the children arrays given to route for the root
RootChildren == {Array(<<>>), Array(<<2>>), Array(<<2, 3>>), Array(<<2, 3, 4, 5>>)}

\* the calls that build the root: route("", options, children), and
\* route(options), which passes no children
RootCalls ==
  {RootCall("route", <<>>, ch) : ch \in RootChildren}
    \cup {RootCall("route", Undefined, Array(<<>>))}

\* the tree whose root is what route returned for the call, matched against
\* every list of segments
InitRoute ==
  /\ rootCall \in RootCalls
  /\ children = [n \in Nodes |->
                   IF n = 1
                   THEN route(rootCall.path, Opts("Shell"), rootCall.children).children
                   ELSE routeTable[n].children]
  /\ promises = <<>>
  /\ pending = {}
  /\ loaderCalls = [f \in LazyNodes |-> 0]
  /\ event = Event("init", NoCall, "none", "none", 0, Null)
  /\ urlProps = PropsWith(U_sa)
  /\ resolver = [c \in Routers |-> NoResolver]
  /\ shown = [c \in Routers |-> NotShown]
  /\ component = [n \in Nodes |-> IF n \in LazyComponents THEN "lazy" ELSE "plain"]
  /\ lazyPromise = [n \in LazyComponents |-> NoPromise]
  /\ lazyLoads = [n \in LazyComponents |-> 0]
  /\ preloadCalls = <<>>
  /\ error = [n \in Nodes |-> NoError]
  /\ setStates = [c \in Routers |-> 0]
  /\ history = <<U_root>>
  /\ writeLog = [count |-> 0, url |-> Undefined, replace |-> "undefined"]
  /\ navCount = 0
  /\ subscribers = {}
  /\ forceUpdates = [c \in Comps |-> 0]
  /\ observed = [c \in Comps |-> Undefined]
  /\ mRoutes = <<1>>
  /\ mSegments \in SegArrays
  /\ mIndex = 0
  /\ mCalled = FALSE
  /\ mResult = <<>>

NextRoute == CallMatch

SpecRoute == InitRoute /\ [][NextRoute]_vars

\* the tree after preload(root, "/s") with a loader that failed
FailedState ==
  [children |-> [n \in Nodes |-> routeTable[n].children],
   promises |-> <<[loader |-> 3, state |-> "rejected"]>>,
   pending |-> {},
   error |-> [n \in Nodes |-> IF n = 3 THEN "err" ELSE NoError]]

\* the load states the calls below are made in: those of TreeState and
\* the failed one
FrameState(k) ==
  IF k = 5 THEN FailedState
  ELSE [children |-> TreeState(k).children, promises |-> TreeState(k).promises,
        pending |-> TreeState(k).pending, error |-> [n \in Nodes |-> NoError]]

\* match, navigate, popstate and mount/unmount called on a tree in any of
\* these load states
InitFrame ==
  /\ \E k \in 0..5 :
       /\ children = FrameState(k).children
       /\ promises = FrameState(k).promises
       /\ pending = FrameState(k).pending
       /\ error = FrameState(k).error
       /\ loaderCalls = [f \in LazyNodes |->
            Cardinality({p \in 1..Len(FrameState(k).promises) :
                           FrameState(k).promises[p].loader = f})]
       /\ event = Event(IF k = 0 THEN "init" ELSE "settle", NoCall,
                        "none", "none", 0, Null)
  /\ urlProps = PropsWith(U_sa)
  /\ resolver = [c \in Routers |-> NoResolver]
  /\ shown = [c \in Routers |-> NotShown]
  /\ rootCall = LayoutCall
  /\ component = [n \in Nodes |-> IF n \in LazyComponents THEN "lazy" ELSE "plain"]
  /\ lazyPromise = [n \in LazyComponents |-> NoPromise]
  /\ lazyLoads = [n \in LazyComponents |-> 0]
  /\ preloadCalls = <<>>
  /\ setStates = [c \in Routers |-> 0]
  /\ history = <<U_root>>
  /\ writeLog = [count |-> 0, url |-> Undefined, replace |-> "undefined"]
  /\ navCount = 0
  /\ subscribers = {}
  /\ forceUpdates = [c \in Comps |-> 0]
  /\ observed = [c \in Comps |-> Undefined]
  /\ mRoutes = <<1>>
  /\ mSegments \in {SegmentsOf(u) : u \in Urls}
  /\ mIndex = 0
  /\ mCalled = FALSE
  /\ mResult = <<>>

NextFrame ==
  \/ \E path \in Urls : navCount < MaxNavRender /\ HandleClick(path)
  \/ PopState
  \/ \E c \in Routers : Mount(c)
  \/ \E c \in Routers : Unmount(c)
  \/ CallMatch

SpecFrame == InitFrame /\ [][NextFrame]_vars

\* ------------------------------------------------ src/router.js, Router
\* the re-renders asked of router c so far: its setState calls and the
\* forceUpdate calls of notify
Requests(c) == setStates[c] + forceUpdates[c]

\* const loading = ... || deepest.route.children instanceof Promise, for a
\* deepest match whose children render did not load itself: the promise
\* the loading prop stands for, 0 when there is none
PromiseShown(c, segments) ==
  IF Deepest(children, routeProp(c), segments) # 0
     /\ children[Deepest(children, routeProp(c), segments)].kind = "promise"
  THEN children[Deepest(children, routeProp(c), segments)].id
  ELSE 0

\* the vnode tree render of src/router.js returns: the deepest match gets
\* loading: true, and error when the route has one
RouterJsOut(matches, deepest, wasFunction) ==
  [tag |-> "tree",
   routes |-> RoutesOf(matches),
   params |-> MergeParams(matches),
   loading |-> wasFunction \/ children[deepest].kind = "promise",
   error |-> IF (wasFunction \/ children[deepest].kind = "promise")
                /\ error[deepest] # NoError
             THEN error[deepest] ELSE NoError]

\* render of src/router.js, from the matches on
RouterJsRenderMatches(c, segments, matches) ==
  IF matches = <<>>
  THEN /\ event' = Event("render", Call("render", c, routeProp(c), segments),
                         "none", "none", 0, Null)
       /\ UNCHANGED loadVars
  ELSE IF children[LastRoute(matches)].kind = "function"
       THEN /\ Len(promises) < MaxLoads
            /\ \E step \in {LoopPass(children, promises, loaderCalls,
                                      Call("render", c, routeProp(c), segments))} :
                 Commit("render", Call("render", c, routeProp(c), segments),
                        RouterJsOut(matches, LastRoute(matches), TRUE), step)
       ELSE /\ event' = Event("render", Call("render", c, routeProp(c), segments),
                              "none", "none", 0,
                              RouterJsOut(matches, LastRoute(matches), FALSE))
            /\ UNCHANGED loadVars

\* Router.render of src/router.js, run by the host library on mount and
\* after setState or forceUpdate: it starts the load when the deepest
\* match's children are a function, and only shows loading: true when
\* they are a promise
RouterJsRender(c) ==
  /\ c \in Routers
  /\ shown[c].seen < Requests(c)
  /\ \E segments \in {FilterBoolean(Split(PathText(RenderUrl(c)), "/"))} :
       /\ \E matches \in {match(<<routeProp(c)>>, segments, 0)} :
            RouterJsRenderMatches(c, segments, matches)
       /\ shown' = [shown EXCEPT ![c] =
                      [seen |-> Requests(c),
                       promise |-> PromiseShown(c, segments)]]
  /\ UNCHANGED <<navVars, matchVars, urlProps, resolver, rootCall, lazyVars>>

\* the routers of src/router.js: rendered by the host, mounted after their
\* first render, their context preload called by a component they
\* rendered, while the user navigates and the loads settle
\* the urls of the links a rendered component preloads on hover and
\* navigates to on click: the ones behind a lazy boundary
LazyUrls == {U_s, U_sa}

InitRouterJs == Constructed(PropsWith(U_sa))

NextRouterJs ==
  \/ \E c \in Routers : RouterJsRender(c)
  \/ \E c \in Routers : shown[c].seen >= 0 /\ Mount(c)
  \/ \E c \in Routers, path \in LazyUrls : shown[c].seen >= 0 /\ CtxPreload(c, path)
  \/ \E path \in LazyUrls : navCount < MaxNavRender /\ HandleClick(path)
  \/ \E p \in 1..MaxLoads, ok \in BOOLEAN : Settle(p, ok)

\* every loader's promise settles, and the host renders a router that
\* was asked to
SpecRouterJs ==
  /\ InitRouterJs /\ [][NextRouterJs]_vars
  /\ \A p \in 1..MaxLoads : WF_vars(\E ok \in BOOLEAN : Settle(p, ok))
  /\ \A c \in Routers : WF_vars(RouterJsRender(c))

TypeOK ==
  /\ \A n \in Nodes : children[n].kind \in {"array", "function", "promise"}
  /\ Len(promises) <= MaxLoads

\* the load states SpecMatch starts from are states of Spec
TreeStateReached(k) ==
  /\ children = TreeState(k).children
  /\ promises = TreeState(k).promises
  /\ pending = TreeState(k).pending

\* ------------------------------------------------------ claims on match
IndexNodes ==
  {n \in Nodes : routeTable[n].path = Undefined
                 /\ routeTable[n].children = Array(<<>>)}

\* URL segments consumed before the k-th element of a chain returned by
\* the direct call of match
RECURSIVE ConsumedBefore(_, _)
ConsumedBefore(chain, k) ==
  IF k <= 1 THEN mIndex
  ELSE ConsumedBefore(chain, k - 1) + Len(PathSegments(chain[k - 1].route))

AloneMatches(r) == match(<<r>>, mSegments, mIndex) # <<>>

\* C6: a node whose pattern has more sub-segments than the URL segments
\* remaining from the start index is skipped, and the result is what the
\* later siblings give
C6_TooLongIsSkipped ==
  (mCalled /\ Len(mRoutes) >= 2
     /\ Len(PathSegments(mRoutes[1])) > Len(mSegments) - mIndex)
  => mResult = match(Tail(mRoutes), mSegments, mIndex)

\* C7: first match wins: the chain never goes through a sibling when a
\* sibling declared before it gives a non-empty chain on its own
C7_FirstMatchWins ==
  (mCalled /\ mResult # <<>>)
  => \A i \in 1..Len(mRoutes) :
       (/\ mRoutes[i] = mResult[1].route
        /\ \A k \in 1..(i - 1) : mRoutes[k] # mResult[1].route)
       => \A k \in 1..(i - 1) : ~AloneMatches(mRoutes[k])

C7_Witness ==
  /\ mCalled /\ Len(mRoutes) = 2 /\ mRoutes[1] # mRoutes[2]
  /\ AloneMatches(mRoutes[1]) /\ AloneMatches(mRoutes[2])
  /\ mResult # <<>> /\ mResult[1].route = mRoutes[1]

\* the tree with the lazy node r in the other lazy state
OtherLazyState(ch, r) ==
  [ch EXCEPT ![r] = IF ch[r].kind = "function" THEN PromiseRef(1)
                    ELSE Function(r)]

\* C8: boundary short-circuit: a node whose pattern matches and whose
\* children are a loader function or an in-flight promise gives the chain
\* that ends at it, however many URL segments follow, and the same chain
\* in both lazy states
C8_BoundaryShortCircuit ==
  (mCalled /\ mRoutes # <<>>)
  => LET r == mRoutes[1]
         ps == PathSegments(r)
     IN (/\ children[r].kind \in {"function", "promise"}
         /\ mIndex + Len(ps) <= Len(mSegments)
         /\ \A i \in 1..Len(ps) :
              ps[i][1] = ":" \/ ps[i] = mSegments[mIndex + i])
        => /\ mResult = <<[route |-> r,
                           params |-> ParamsOf(ps, mSegments, mIndex)]>>
           /\ MatchIn(OtherLazyState(children, r), mRoutes, mSegments, mIndex)
                = mResult

C8_Witness ==
  /\ mCalled /\ Len(mRoutes) >= 1
  /\ children[mRoutes[1]].kind = "promise"
  /\ Len(mResult) = 1 /\ mResult[1].route = mRoutes[1]
  /\ mIndex + Len(PathSegments(mRoutes[1])) < Len(mSegments)

\* C9: a node with statically known, non-empty children is never the last
\* element of a returned chain
C9_ParentNeverLast ==
  (mCalled /\ mResult # <<>>)
  => LET r == mResult[Len(mResult)].route
     IN ~(children[r].kind = "array" /\ children[r].items # <<>>)

LayoutNodes ==
  {n \in Nodes : routeTable[n].path = Undefined
                 /\ routeTable[n].children.kind = "array"
                 /\ routeTable[n].children.items # <<>>}

\* the direct call is match([layout], segments, index)
LayoutAlone ==
  mCalled /\ Len(mRoutes) = 1 /\ mRoutes[1] \in LayoutNodes

C1_NavigateNotifiesEachOnce ==
  [][navCount' = navCount + 1
     => \A c \in Comps :
          forceUpdates'[c] = forceUpdates[c] + (IF c \in subscribers THEN 1 ELSE 0)]_vars

C1_Witness ==
  /\ navCount = 2 /\ Len(history) = 3 /\ history[2] = history[3]
  /\ "r1" \in subscribers /\ forceUpdates["r1"] = 2
  /\ "n1" \in subscribers /\ forceUpdates["n1"] = 2

\* C2: a navigate call writes the source exactly once, with its URL and its
\* replace flag, and every subscriber notified by the call reads the new URL
C2_WriteOnceBeforeNotify ==
  [][navCount' = navCount + 1
     => /\ event'.op = "navigate"
        /\ writeLog'.count = writeLog.count + 1
        /\ writeLog'.url = event'.out.to
        /\ writeLog'.replace = event'.out.replace
        /\ Read(history') = event'.out.to
        /\ Len(history') = IF event'.out.replace = "true"
                           THEN Len(history) ELSE Len(history) + 1
        /\ \A c \in subscribers : observed'[c] = event'.out.to]_vars

C2_Witness ==
  /\ event.op = "navigate" /\ event.out.replace = "true"
  /\ event.out.to = U_sa /\ history = <<U_sa>>
  /\ subscribers = {"r1", "n1"}
  /\ \A c \in subscribers : observed[c] = U_sa

\* ----------------------------------------------- claims on Router.render
\* C12: no match is a value: a render whose match is the empty chain
\* returns null, invokes no loader, changes no node and does not throw
C12_NoMatchRendersNull ==
  [][(/\ event'.op = "render"
      /\ match(<<event'.call.root>>, event'.call.segments, 0) = <<>>)
     => /\ event'.out = Null
        /\ event'.outcome # "thrown"
        /\ event'.invoked = 0
        /\ UNCHANGED <<children, error, promises, loaderCalls, pending>>]_vars

C12_Witness ==
  /\ event.op = "render" /\ event.out = Null
  /\ event.call.comp = "r1" /\ event.call.segments = <<<<"a">>, <<"a">>>>
  /\ match(<<1>>, event.call.segments, 0) = <<>>

\* URL segments consumed before the k-th route of a chain matched from 0
RECURSIVE Consumed(_, _)
Consumed(rs, k) ==
  IF k <= 1 THEN 0 ELSE Consumed(rs, k - 1) + Len(PathSegments(rs[k - 1]))

\* the params the k-th route of the chain rs captures from segs
OwnParams(rs, segs, k) ==
  ParamsOf(PathSegments(rs[k]), segs, Consumed(rs, k))

\* C13: the params of a rendered chain are merged from root to leaf, the
\* deepest node that names a param giving its value, and every component
\* of the chain receives that same merged mapping
C13_ParamsAccumulate ==
  (event.op = "render" /\ event.out.tag = "tree")
  => LET rs == event.out.routes
         segs == event.call.segments
         merged == event.out.params
     IN /\ DOMAIN merged = UNION {DOMAIN OwnParams(rs, segs, k) : k \in 1..Len(rs)}
        /\ \A k \in 1..Len(rs) : \A nm \in DOMAIN OwnParams(rs, segs, k) :
             (\A j \in (k + 1)..Len(rs) : nm \notin DOMAIN OwnParams(rs, segs, j))
             => merged[nm] = OwnParams(rs, segs, k)[nm]
        /\ \A k \in 1..Len(rs) : event.out.props[k] = merged

C13_Witness ==
  /\ event.op = "render" /\ event.out.tag = "tree"
  /\ event.out.routes = <<1, 4, 8, 10>>
  /\ OwnParams(event.out.routes, event.call.segments, 2)[<<"i">>] = <<"a">>
  /\ event.out.props[1][<<"i">>] = <<"s">>

\* C19: componentWillUnmount takes the component out of the subscriber set
\* and leaves the notifications it has received as they are; a component
\* that is not subscribed is notified by no navigate call (nor by popstate),
\* and only its own componentDidMount subscribes it again
C19_UnmountedNotNotified ==
  [][\A c \in Comps :
       /\ (event'.op = "unmount" /\ event'.call.comp = c)
          => (c \notin subscribers' /\ forceUpdates'[c] = forceUpdates[c])
       /\ c \notin subscribers => forceUpdates'[c] = forceUpdates[c]
       /\ (c \notin subscribers /\ c \in subscribers')
          => (event'.op = "mount" /\ event'.call.comp = c)]_vars

C19_Witness ==
  /\ event.op = "navigate" /\ navCount = 2
  /\ "r1" \notin subscribers /\ forceUpdates["r1"] = 1
  /\ "n1" \in subscribers /\ forceUpdates["n1"] = 2

\* C21: registration is idempotent: componentDidMount of a component that
\* is subscribed and componentWillUnmount of one that is not leave the
\* subscriber set as it is, and a navigate call notifies a component
\* mounted twice exactly once
C21_RegistrationIdempotent ==
  [][/\ (event'.op = "mount" /\ event'.call.comp \in subscribers)
        => (subscribers' = subscribers /\ forceUpdates' = forceUpdates)
     /\ (event'.op = "unmount" /\ event'.call.comp \notin subscribers)
        => (subscribers' = subscribers /\ forceUpdates' = forceUpdates)
     /\ navCount' = navCount + 1
        => \A c \in subscribers : forceUpdates'[c] = forceUpdates[c] + 1]_vars

\* r1 has just been mounted while subscribed, after one navigate
C21_Witness ==
  /\ event.op = "mount" /\ event.call.comp = "r1"
  /\ event.out = Membership(TRUE)
  /\ "r1" \in subscribers /\ navCount = 1 /\ forceUpdates["r1"] = 1

\* ------------------------------------------- claims on the load engine
NotSettledYet(f) ==
  /\ \E p \in 1..Len(promises) : promises[p].loader = f
  /\ \A p \in 1..Len(promises) :
       promises[p].loader = f => promises[p].state = "pending"

\* C3: memoized load: as long as the first load of a boundary has not
\* settled, its loader has been invoked exactly once, however many callers
\* (preload, context preload, Router.render) have reached the boundary
C3_MemoizedLoad ==
  \A f \in LazyNodes : NotSettledYet(f) => loaderCalls[f] = 1

\* a preload has just found the boundary in flight, the load having been
\* started by a Router's render
C3_Witness ==
  /\ event.op = "preload" /\ event.invoked = 0
  /\ LET d == Deepest(children, event.call.root, event.call.segments)
     IN /\ d # 0 /\ children[d].kind = "promise"
        /\ promises[children[d].id].state = "pending"
        /\ NotSettledYet(promises[children[d].id].loader)
        /\ loaderCalls[promises[children[d].id].loader] = 1
        /\ \E a \in pending : a.node = d /\ a.call.kind = "render"

\* C4: a node's loader is invoked at most once in the node's lifetime
C4_LoaderAtMostOnce ==
  \A f \in LazyNodes : loaderCalls[f] <= 1

\* C5: when the promise returned by preload(root, url) fulfils, the chain
\* for url does not end at a node whose children are a loader function or
\* an in-flight promise
C5_PreloadFulfilsResolved ==
  (event.call.kind = "preload" /\ event.returned = "fulfilled")
  => LET d == Deepest(children, event.call.root, event.call.segments)
     IN d = 0 \/ children[d].kind \notin {"function", "promise"}

DescendsInto(ch, n) ==
  \A u \in Urls :
    \A k \in 1..Len(MatchIn(ch, <<1>>, SegmentsOf(u), 0)) :
      MatchIn(ch, <<1>>, SegmentsOf(u), 0)[k].route = n
      => IF MatchIn(ch, ch[n].items, SegmentsOf(u),
                    Consumed(RoutesOf(MatchIn(ch, <<1>>, SegmentsOf(u), 0)), k + 1))
              # <<>>
         THEN /\ k < Len(MatchIn(ch, <<1>>, SegmentsOf(u), 0))
              /\ \E i \in 1..Len(ch[n].items) :
                    ch[n].items[i] = MatchIn(ch, <<1>>, SegmentsOf(u), 0)[k + 1].route
         ELSE k = Len(MatchIn(ch, <<1>>, SegmentsOf(u), 0))

LastLoadFailed(n) ==
  \E p \in 1..Len(promises) :
    /\ promises[p].loader = n /\ promises[p].state = "rejected"
    /\ \A q \in (p + 1)..Len(promises) :
         promises[q].loader = n => promises[q].state = "pending"

\* C16: a load failure is surfaced at the node that produced it: once the
\* load of the deepest matched node has failed, render gives that node's
\* component the stored error as its error prop and renders no
\* fallback/Boundary for it, and does not throw
C16_FailureSurfacedAtNode ==
  (/\ event.op = "render" /\ event.out.tag = "tree"
   /\ LastLoadFailed(event.out.routes[Len(event.out.routes)]))
  => /\ event.out.error = error[event.out.routes[Len(event.out.routes)]]
     /\ ~event.out.boundary
     /\ event.outcome # "thrown"

\* ------------------------------- claims on lazy components (v0.2.0)
\* C17: parallelism: a preload or a render starts, in its synchronous part,
\* the load of every lazy component on the matched path that has not been
\* started, so that no load on the path waits for another to settle
C17_LoadsStartTogether ==
  [][event'.op \in {"preloadV2", "renderV2"}
     => \A n \in LazyOnPath(component, event'.call.segments) :
          /\ lazyPromise'[n].state # "none"
          /\ lazyPromise[n].state = "none"
             => /\ lazyPromise'[n].state = "pending"
                /\ lazyLoads'[n] = lazyLoads[n] + 1]_vars

C17_Witness ==
  /\ event.op = "preloadV2" /\ event.call.segments = SegmentsOf(U_sa)
  /\ LazyOnPath(component, event.call.segments) = {3, 7}
  /\ \A n \in {3, 7} : lazyPromise[n].state = "pending" /\ lazyLoads[n] = 1

\* C18: fan-in barrier: the promise a preload returned has settled only if
\* every load it started or joined has settled
C18_PreloadSettlesAfterAllLoads ==
  \A i \in 1..Len(preloadCalls) :
    preloadCalls[i].state # "pending"
    => \A n \in preloadCalls[i].joined : lazyPromise[n].state # "pending"

\* -------------------------------------------- claims on the url prop
\* C20: a Router constructed with a url prop is never in the subscriber
\* set, is never notified, and renders the match of its url prop
C20_UrlPropRouterIsolated ==
  \A c \in Routers :
    urlProp(c) # Undefined
    => /\ c \notin subscribers
       /\ forceUpdates[c] = 0
       /\ (event.op = "render" /\ event.call.comp = c)
          => event.call.segments = SegmentsOf(urlProp(c))

\* ------------------------------------------------- claims on preload
\* C22: preload with nothing to load is a no-op: when the chain for the
\* URL is empty or does not end at an unresolved lazy boundary, the call
\* fulfils, invokes no loader and leaves every node's children, component
\* and error, and the loads in flight, as they are
C22_PreloadNoop ==
  [][(/\ event'.op = "preload"
      /\ LET d == Deepest(children, event'.call.root, event'.call.segments)
         IN d = 0 \/ children[d].kind = "array")
     => /\ event'.returned = "fulfilled"
        /\ event'.invoked = 0
        /\ UNCHANGED <<children, error, component, promises, loaderCalls,
                       pending>>]_vars

\* a preload of /s/a after an earlier one resolved both boundaries
C22_Witness ==
  /\ event.op = "preload" /\ event.call.segments = SegmentsOf(U_sa)
  /\ event.returned = "fulfilled" /\ event.invoked = 0
  /\ children[3].kind = "array" /\ children[7].kind = "array"
  /\ loaderCalls[3] = 1 /\ loaderCalls[7] = 1

\* ------------------------------------------------------- claims on the query
HasQuery(url) == \E i \in 1..Len(url) : url[i] = "?"

\* the position of the first "?" of a url that has one
FirstMark(url) ==
  CHOOSE i \in 1..Len(url) : url[i] = "?" /\ \A j \in 1..(i - 1) : url[j] # "?"

\* the text after the first "?", and the url without it
AfterMark(url)  == SubSeq(url, FirstMark(url) + 1, Len(url))
BeforeMark(url) == IF HasQuery(url) THEN SubSeq(url, 1, FirstMark(url) - 1) ELSE url

\* the entries the text after the first "?" holds, none without a "?"
EntriesAfterMark(url) ==
  IF HasQuery(url) THEN FormEntries(AfterMark(url)) ELSE <<>>

\* q maps exactly the keys of the entries, each to its last occurrence
LastOccurrenceWins(q, entries) ==
  /\ DOMAIN q = {entries[j].name : j \in DOMAIN entries}
  /\ \A j \in DOMAIN entries :
       (\A l \in (j + 1)..Len(entries) : entries[l].name # entries[j].name)
       => q[entries[j].name] = entries[j].value

\* C24: the query mapping every matched component of a render receives is
\* built from the text after the "?" of the url: it maps exactly the keys
\* found there, each to the value of its last occurrence; a url without a
\* "?" gives the empty mapping; and the chain rendered is the chain of the
\* url with its query removed, null being rendered exactly when that chain
\* is empty.
C24_QueryFromTextAfterMark ==
  event.op = "render" =>
    /\ event.call.segments =
         FilterBoolean(Split(BeforeMark(RenderUrl(event.call.comp)), "/"))
    /\ (event.out.tag = "null")
         = (match(<<routeProp(event.call.comp)>>, event.call.segments, 0) = <<>>)
    /\ event.out.tag = "tree" =>
         /\ event.out.routes
              = RoutesOf(match(<<routeProp(event.call.comp)>>, event.call.segments, 0))
         /\ \A i \in 1..Len(event.out.routes) :
              /\ LastOccurrenceWins(event.out.query[i],
                                    EntriesAfterMark(RenderUrl(event.call.comp)))
              /\ ~HasQuery(RenderUrl(event.call.comp)) => event.out.query[i] = <<>>

\* the same property over the urls that hold at most one "?"
OneMark(url) == Len(Split(url, "?")) <= 2

C24_HoldsWithOneMark ==
  (event.op = "render" /\ OneMark(RenderUrl(event.call.comp)))
  => C24_QueryFromTextAfterMark

\* ------------------------------------------------ claims on returned chains
\* C25: every chain match returns is a path in the tree: its first node is
\* one of the nodes passed to match, and each later node is an element of
\* the resolved (array) children of the node before it.
C25_ChainIsPath ==
  (mCalled /\ mResult # <<>>)
  => /\ \E i \in 1..Len(mRoutes) : mRoutes[i] = mResult[1].route
     /\ \A k \in 2..Len(mResult) :
          /\ children[mResult[k - 1].route].kind = "array"
          /\ \E i \in 1..Len(children[mResult[k - 1].route].items) :
               children[mResult[k - 1].route].items[i] = mResult[k].route

C25_Witness ==
  /\ mCalled /\ Len(mResult) >= 3
  /\ mResult[2].route \in LazyNodes
  /\ Len(mRoutes) = 2 /\ mRoutes[2] = mResult[1].route

\* C26: for a non-empty chain returned from start index 0, the pattern
\* sub-segments of its nodes sum to the number of URL segments, or the
\* deepest node is a lazy boundary and the sum is at most that number;
\* the sum never exceeds the number of URL segments.
C26_ConsumedSum ==
  (mCalled /\ mIndex = 0 /\ mResult # <<>>)
  => /\ ConsumedBefore(mResult, Len(mResult) + 1) <= Len(mSegments)
     /\ \/ ConsumedBefore(mResult, Len(mResult) + 1) = Len(mSegments)
        \/ IsLazy(children[mResult[Len(mResult)].route])

C26_Witness ==
  /\ mCalled /\ mIndex = 0 /\ mResult # <<>>
  /\ IsLazy(children[mResult[Len(mResult)].route])
  /\ ConsumedBefore(mResult, Len(mResult) + 1) < Len(mSegments)

C26_WitnessExact ==
  /\ mCalled /\ mIndex = 0 /\ Len(mResult) >= 2
  /\ ~IsLazy(children[mResult[Len(mResult)].route])
  /\ ConsumedBefore(mResult, Len(mResult) + 1) = 2

\* the positions of the ":name" markers of a node's pattern
Markers(r) ==
  {i \in 1..Len(PathSegments(r)) : StartsWithColon(PathSegments(r)[i])}

\* C27: in every chain match returns, each captured param value is the URL
\* segment at the position of its ":name" marker, which exists: the ""
\* default of an absent segment never appears.
C27_ParamsAreSegments ==
  mCalled =>
    \A k \in 1..Len(mResult) :
      /\ DOMAIN mResult[k].params
           = {Tail(PathSegments(mResult[k].route)[i]) : i \in Markers(mResult[k].route)}
      /\ \A i \in Markers(mResult[k].route) :
           /\ ConsumedBefore(mResult, k) + i <= Len(mSegments)
           /\ mResult[k].params[Tail(PathSegments(mResult[k].route)[i])]
                = mSegments[ConsumedBefore(mResult, k) + i]
           /\ mResult[k].params[Tail(PathSegments(mResult[k].route)[i])] # <<>>

C27_Witness ==
  /\ mCalled /\ mIndex = 1 /\ Len(mResult) = 2
  /\ Markers(mResult[2].route) # {}
  /\ mResult[2].params = [k \in {<<"i">>} |-> <<"b">>]

\* the node's own pattern matches at the start index, it has resolved
\* children none of which matches the remaining segments, and segments
\* remain unconsumed
OwnMatchChildrenFail(r) ==
  /\ Len(PathSegments(r)) <= Len(mSegments) + mIndex
  /\ LiteralsMatch(PathSegments(r), mSegments, mIndex)
  /\ children[r].kind = "array" /\ children[r].items # <<>>
  /\ match(children[r].items, mSegments, mIndex + Len(PathSegments(r))) = <<>>
  /\ mIndex + Len(PathSegments(r)) < Len(mSegments)

\* C28: sibling fall-through: when the first node's own pattern matches but
\* none of its children matches the remaining segments and segments remain
\* unconsumed, match goes on to the next sibling: the result is what the
\* later siblings give, and the chain of the next sibling when it matches.
C28_SiblingFallThrough ==
  (mCalled /\ mRoutes # <<>> /\ OwnMatchChildrenFail(mRoutes[1]))
  => /\ mResult = match(Tail(mRoutes), mSegments, mIndex)
     /\ (Len(mRoutes) >= 2 /\ AloneMatches(mRoutes[2]))
        => mResult = match(<<mRoutes[2]>>, mSegments, mIndex)

C28_Witness ==
  /\ mCalled /\ Len(mRoutes) = 2 /\ OwnMatchChildrenFail(mRoutes[1])
  /\ Len(mResult) = 2 /\ mResult[1].route = mRoutes[2]
  /\ mRoutes[1] # mRoutes[2]

\* -------------------------------------------- claims on nested boundaries
\* the pairs <<g, f>> of boundaries with f among the children g loads
NestedPairs ==
  {gf \in LazyNodes \X LazyNodes :
     \E i \in 1..Len(LoaderResult(gf[1])) : LoaderResult(gf[1])[i] = gf[2]}

LoadFulfilled(proms, g) ==
  \E p \in 1..Len(proms) : proms[p].loader = g /\ proms[p].state = "fulfilled"

\* C29: nested boundaries are resolved in sequence: the loader of a boundary
\* inside another boundary's loaded children is invoked only once a load of
\* the outer boundary has fulfilled and its children are stored, and a step
\* in which a load of the outer boundary fails invokes no loader.
C29_NestedInSequence ==
  [][\A gf \in NestedPairs :
       /\ loaderCalls'[gf[2]] > loaderCalls[gf[2]]
          => /\ LoadFulfilled(promises', gf[1])
             /\ children'[gf[1]] = Array(LoaderResult(gf[1]))
             /\ event'.invoked = gf[2]
       /\ (\E p \in 1..Len(promises) :
             /\ promises[p].loader = gf[1]
             /\ promises[p].state = "pending"
             /\ promises'[p].state = "rejected")
          => /\ loaderCalls'[gf[2]] = loaderCalls[gf[2]]
             /\ event'.invoked = 0
       /\ ~LoadFulfilled(promises', gf[1]) => loaderCalls'[gf[2]] = 0]_vars

\* the continuation of a load of "s" has just invoked the loader of "a"
C29_Witness ==
  /\ event.op = "settle" /\ event.invoked = 7
  /\ loaderCalls[7] = 1 /\ LoadFulfilled(promises, 3)
  /\ children[7].kind = "promise"

\* a load of "s" has failed and the loader of "a" was never invoked
C29_WitnessFailed ==
  /\ event.op = "settle" /\ event.outcome = "rejected"
  /\ event.call.segments = SegmentsOf(U_sa)
  /\ loaderCalls[3] = 1 /\ loaderCalls[7] = 0

\* ---------------------------------------------- claims on loads in flight
\* the loads of loader f that have not settled
InFlight(proms, f) ==
  {p \in 1..Len(proms) : proms[p].loader = f /\ proms[p].state = "pending"}

\* C30: at most one load per node is in flight at any time: a step taken
\* while a node's children field holds an in-flight promise (a render, a
\* preload, a Resolver step or a settlement) does not invoke that node's
\* loader, and no loader has two unsettled loads.
C30_OneLoadInFlight ==
  [][/\ \A n \in LazyNodes :
          (/\ children[n].kind = "promise"
           /\ promises[children[n].id].state = "pending")
          => /\ loaderCalls'[promises[children[n].id].loader]
                  = loaderCalls[promises[children[n].id].loader]
             /\ event'.invoked # promises[children[n].id].loader
     /\ \A f \in LazyNodes : Cardinality(InFlight(promises', f)) <= 1]_vars

\* a Resolver has just found the children of its node in flight
C30_Witness ==
  /\ event.op = "resolver" /\ event.outcome = "thrown" /\ event.invoked = 0
  /\ children[event.call.root].kind = "promise"
  /\ promises[children[event.call.root].id].state = "pending"
  /\ loaderCalls[event.call.root] = 2

\* a Resolver has just called the loader put back by a failed load
C30_WitnessResolverLoads ==
  /\ event.op = "resolver" /\ event.invoked = 3
  /\ error[3] = "err" /\ loaderCalls[3] = 2
  /\ Cardinality(InFlight(promises, 3)) = 1

\* ------------------------------------------------ claims on re-rendering
\* the calls of #load started by router c's render that are suspended
RenderWaits(pend, c) == {a \in pend : a.call.kind = "render" /\ a.call.comp = c}

\* C31: every load Router.render starts leads to exactly one setState on
\* that Router, after it has settled and none before: a render that calls
\* a loader adds one suspended call and no setState; a setState comes one
\* at a time, in a step in which a promise the Router's call awaits
\* settles; and every suspended call that ends, by success or by failure,
\* is replaced by exactly one setState.
C31_OneSetStatePerLoad ==
  [][\A c \in Routers :
       /\ Cardinality(RenderWaits(pending', c)) + setStates'[c]
            = Cardinality(RenderWaits(pending, c)) + setStates[c]
              + (IF event'.op = "render" /\ event'.call.comp = c
                    /\ event'.invoked # 0 THEN 1 ELSE 0)
       /\ (event'.op = "render" /\ event'.call.comp = c /\ event'.invoked # 0)
          => setStates'[c] = setStates[c]
       /\ setStates'[c] # setStates[c]
          => /\ setStates'[c] = setStates[c] + 1
             /\ \E a \in RenderWaits(pending, c) :
                  /\ a \notin pending'
                  /\ promises[a.promise].state = "pending"
                  /\ promises'[a.promise].state # "pending"]_vars

\* a render of r2 at "/s/a" started the load of "s", its call went on to
\* the load of "a" without a setState, and that load has just failed
C31_Witness ==
  /\ event.op = "settle" /\ event.call.kind = "render" /\ event.call.comp = "r2"
  /\ event.outcome = "rejected"
  /\ loaderCalls[3] = 1 /\ loaderCalls[7] = 1
  /\ setStates["r2"] = 1

\* ---------------------------------------------------- claims on stale loads
\* C32: a load's result is applied to its node when it settles, whatever
\* url the source holds by then: a fulfilled load stores the loader's
\* array on the node the loader was taken from and leaves its error alone,
\* a rejected one restores the loader function there and stores the
\* rejection value.
C32_StaleWrite ==
  [][\A a \in pending :
       a \notin pending'
       => /\ promises'[a.promise].state = "fulfilled"
             => /\ children'[a.node] = Array(LoaderResult(a.fn))
                /\ error'[a.node] = error[a.node]
          /\ promises'[a.promise].state = "rejected"
             => /\ children'[a.node] = Function(a.fn)
                /\ event'.out.tag = "rejection"
                /\ error'[a.node] = event'.out.value]_vars

\* the load of "s", started by a render at "/s" or "/s/a", has just
\* fulfilled while the source holds "/"
C32_Witness ==
  /\ event.op = "settle" /\ event.call.kind = "render"
  /\ event.outcome = "fulfilled"
  /\ Read(history) = U_root /\ navCount = 2
  /\ event.call.segments = SegmentsOf(U_s)
  /\ children[3] = Array(LoaderResult(3))

\* the same with a load that has just failed
C32_WitnessFailed ==
  /\ event.op = "settle" /\ event.call.kind = "render"
  /\ event.outcome = "rejected"
  /\ Read(history) = U_root /\ navCount = 2
  /\ children[3] = Function(3) /\ error[3] = "err"

\* ------------------------------------------- claims on the promise returned
\* C33: the promise returned by the context preload never rejects, the
\* failure of a loader on its path being recorded on the node only; the
\* promise returned by the standalone preload rejects with the loader's
\* error, after the error is recorded on the node.
C33_CtxPreloadNeverRejects ==
  [][/\ event'.call.kind = "ctx" => event'.returned # "rejected"
     /\ \A a \in pending :
          (a \notin pending' /\ promises'[a.promise].state = "rejected")
          => /\ event'.out.tag = "rejection"
             /\ error'[a.node] = event'.out.value
             /\ a.call.kind = "ctx" => event'.returned = "fulfilled"
             /\ a.call.kind = "preload" => event'.returned = "rejected"]_vars

\* a loader on the path of a context preload has just failed
C33_Witness ==
  /\ event.op = "settle" /\ event.call.kind = "ctx"
  /\ event.outcome = "rejected" /\ event.returned = "fulfilled"
  /\ event.out = Rejection("err")
  /\ error[event.call.root] = NoError /\ error[3] = "err"

\* a loader on the path of a standalone preload has just failed
C33_WitnessStandalone ==
  /\ event.op = "settle" /\ event.call.kind = "preload"
  /\ event.returned = "rejected" /\ event.out = Rejection("err")
  /\ error[7] = "err"

\* ----------------------------------------------------- claims on the frame
\* the operations outside the load paths
FrameOps == {"match", "navigate", "popstate", "mount", "unmount"}

\* C34: match, navigate, notify (navigate and popstate) and subscriber
\* mount/unmount never change a node's children or error field and never
\* invoke a loader; they leave the loads in flight and the calls awaiting
\* them as they are.
C34_OnlyLoadPathsChangeNodes ==
  [][event'.op \in FrameOps
     => /\ children' = children
        /\ error' = error
        /\ loaderCalls' = loaderCalls
        /\ promises' = promises
        /\ pending' = pending
        /\ event'.invoked = 0]_vars

\* a navigate has just notified a mounted Router while the load of "a" is
\* in flight
C34_Witness ==
  /\ event.op = "navigate" /\ forceUpdates["r1"] = 1
  /\ children[7].kind = "promise" /\ promises[children[7].id].state = "pending"
  /\ pending # {}

\* a navigate has just been made with the load of "s" failed
C34_WitnessFailed ==
  /\ event.op = "navigate" /\ error[3] = "err" /\ children[3] = Function(3)
  /\ mCalled /\ mResult # <<>>

\* ------------------------------------------------- claims on progress
\* C35: the in-flight state of a node is transient: whenever a node's
\* children field holds a promise, the field later holds the resolved array
\* or the loader function again, the promise stored by Resolver included.
C35_InFlightTransient ==
  \A n \in LazyNodes :
    [](children[n].kind = "promise" => <>(children[n].kind # "promise"))

\* ------------------------------------------------ claims on stored errors
\* C36: a node's error field is set only while the node is unresolved: a
\* node whose children have been resolved to an array has no stored error.
C36_ResolvedHasNoError ==
  \A n \in LazyNodes : children[n].kind = "array" => error[n] = NoError

\* what render does with the stored error: the error prop is passed only
\* for a deepest node that is not resolved
C36_ErrorShownOnlyUnresolved ==
  (event.op = "render" /\ event.out.tag = "tree" /\ event.out.error # NoError)
  => children[event.out.routes[Len(event.out.routes)]].kind # "array"

\* ------------------------------------------- claims on chains across loads
U_sb == <<"/", "s", "/", "b">>
ChainUrls == RenderUrls \cup {U_sb}

\* the routes of the chain of url u on the tree ch
ChainOn(ch, u) == RoutesOf(MatchIn(ch, <<1>>, SegmentsOf(u), 0))

IsPrefix(a, b) == Len(a) <= Len(b) /\ SubSeq(b, 1, Len(a)) = a

\* the step resolves the boundary n at which the chain of u ends
ResolvesDeepest(ch, ch2, u, n) ==
  /\ ch[n].kind = "promise" /\ ch2[n].kind = "array"
  /\ ChainOn(ch, u) # <<>>
  /\ ChainOn(ch, u)[Len(ChainOn(ch, u))] = n

\* on the tree ch, the children of n match the segments of u left after
\* the chain before, or none is left
ChildrenGoOn(ch, before, u, n) ==
  \/ ConsumedIndex(before) = Len(SegmentsOf(u))
  \/ MatchIn(ch, ch[n].items, SegmentsOf(u), ConsumedIndex(before)) # <<>>

\* C37: prefix stability across resolution: for a fixed url, the chain
\* returned while a boundary on the path is unresolved is a prefix of the
\* chain returned once that boundary has resolved.
C37_PrefixStable ==
  [][\A u \in ChainUrls : \A n \in LazyNodes :
       ResolvesDeepest(children, children', u, n)
       => IsPrefix(ChainOn(children, u), ChainOn(children', u))]_vars

\* C37 as the code has it: the chain before is a prefix of the chain after
\* when the resolved children match the remaining segments or no segment
\* remains; otherwise the chain after does not go through the boundary.
C37_PrefixStableWhenChildrenMatch ==
  [][\A u \in ChainUrls : \A n \in LazyNodes :
       ResolvesDeepest(children, children', u, n)
       => IF ChildrenGoOn(children', MatchIn(children, <<1>>, SegmentsOf(u), 0), u, n)
          THEN IsPrefix(ChainOn(children, u), ChainOn(children', u))
          ELSE \A k \in 1..Len(ChainOn(children', u)) :
                 ChainOn(children', u)[k] # n]_vars

\* the load of "s" has just resolved and the chain of "/s/a" has grown
\* from layout, "s" to layout, "s", "a"
C37_Witness ==
  /\ event.op = "settle" /\ children[3].kind = "array"
  /\ children[7].kind # "array"
  /\ ChainOn(children, U_sa) = <<1, 3, 7>>
  /\ ChainOn(children, U_sb) = <<1, 4, 8>>

\* --------------------------------------------------- claims on termination
\* the calls of preload(root, path) the engine makes
PreloadCalls == {Call("preload", "none", 1, SegmentsOf(path)) : path \in PreloadUrls}

\* the promise the call returned has not settled: the call is at an await
Awaiting(call) == \E a \in pending : a.call = call

\* C38: preload terminates: when every invoked loader settles, the promise
\* returned by preload(root, url) settles, under every interleaving with
\* other preloads and renders.
C38_PreloadTerminates ==
  \A call \in PreloadCalls : Awaiting(call) ~> ~Awaiting(call)

\* a preload of "/s/a" has ended fulfilled after its second load, the one
\* of the nested boundary "a"
C38_Witness ==
  /\ event.op = "settle" /\ event.call \in PreloadCalls
  /\ event.call.segments = SegmentsOf(U_sa)
  /\ event.outcome = "fulfilled"
  /\ children[3].kind = "array" /\ children[7].kind = "array"
  /\ ~Awaiting(event.call)

\* a preload has ended rejected with the failure of its loader
C38_WitnessRejected ==
  /\ event.op = "settle" /\ event.call \in PreloadCalls
  /\ event.outcome = "rejected" /\ event.out.tag = "rejection"
  /\ ~Awaiting(event.call)

\* ------------------------------------------ claims on src/router.js
\* router c's last render showed loading: true for the load p, which was
\* in flight when it rendered
ShowsLoadInFlight(c, p) == shown[c].promise = p

Settled(p) == p <= Len(promises) /\ promises[p].state # "pending"

\* C39: in src/router.js, a Router that renders while the deepest matched
\* boundary's load is already in flight, started by the context preload,
\* is re-rendered after that load has settled.
C39_RerenderedAfterLoad ==
  \A c \in Routers : \A p \in 1..MaxLoads :
    ShowsLoadInFlight(c, p)
    ~> (Settled(p) /\ ~ShowsLoadInFlight(c, p))

\* the load has settled and nothing asks the router for another render
C39_Stuck ==
  \E c \in Routers : \E p \in 1..MaxLoads :
    /\ ShowsLoadInFlight(c, p)
    /\ promises[p].state = "fulfilled"
    /\ shown[c].seen = Requests(c)
    /\ \A a \in pending : a.call.comp # c

\* ---------------------------------------------------- claims on route
\* the chain match gives on the tree whose root has the children ch
ChainWithRootChildren(ch) ==
  RoutesOf(MatchIn([children EXCEPT ![1] = ch], <<1>>, mSegments, 0))

\* C40: route("", options, children) builds a root/layout node: it
\* consumes zero URL segments and keeps the children it was given, so
\* match descends into them; only route(options) yields a childless
\* index node.
C40_EmptyPathKeepsChildren ==
  /\ rootCall = RootCall("route", <<>>, rootCall.children)
     => /\ PathSegments(1) = <<>>
        /\ children[1] = rootCall.children
        /\ mCalled => RoutesOf(mResult) = ChainWithRootChildren(rootCall.children)
  /\ rootCall = RootCall("route", Undefined, rootCall.children)
     => children[1] = Array(<<>>)

\* match was called on the root built by route("", options, children)
\* with the index route among the children, for the url "/"
C40_Case ==
  /\ rootCall = RootCall("route", <<>>, Array(<<2, 3, 4, 5>>))
  /\ mCalled /\ mSegments = <<>>
  /\ RoutesOf(mResult) = <<1>>

====
